---- MODULE Spec2Model ----
(***************************************************************************)
(* jajajvm: a minimal interpreter for a subset of JVM bytecode.            *)
(* The model follows src/src/main.rs: the parsed ClassFile (constant pool  *)
(* and methods), the recursive function execute as an explicit stack of    *)
(* frames, and the driver main.                                            *)
(***************************************************************************)
EXTENDS Integers, Sequences, FiniteSets, TLC

VARIABLES class, overflow_checks, frames, output, status, steps, last, saved,
          file, parse, trail

vars == <<class, overflow_checks, frames, output, status, steps, last, saved,
          file, parse, trail>>

(***************************************************************************)
(* Bounds of the model.                                                    *)
(***************************************************************************)
\* Instructions executed in one run (the program itself has no such limit).
MaxSteps == 110
\* Nested invocations of execute (the native call stack bounds the program's).
MaxDepth == 13

(***************************************************************************)
(* Opcodes (the constants of main.rs).                                     *)
(***************************************************************************)
i_invokestatic == 184
i_invokevirtual == 182
i_getstatic == 178
i_return == 177
i_ireturn == 172
i_goto == 167
i_if_icmple == 164
i_if_icmpgt == 163
i_if_icmpge == 162
i_if_icmplt == 161
i_if_icmpne == 160
i_if_icmpeq == 159
i_ifle == 158
i_ifgt == 157
i_ifge == 156
i_iflt == 155
i_ifne == 154
i_ifeq == 153
i_iinc == 132
i_ineg == 116
i_irem == 112
i_idiv == 108
i_imul == 104
i_isub == 100
i_iadd == 96
i_istore_3 == 62
i_istore_0 == 59
i_istore == 54
i_iload_3 == 29
i_iload_0 == 26
i_iload == 21
i_ldc == 18
i_sipush == 17
i_bipush == 16
i_iconst_5 == 8
i_iconst_0 == 3
i_iconst_m1 == 2

(***************************************************************************)
(* Machine integers.  A value of type i32, i16 or i8 is the integer it     *)
(* denotes.  A usize is kept as the integer congruent to it modulo the     *)
(* word size that lies in the signed range, so that the usize a negative   *)
(* i16 is cast to (a sign extension) is that negative number; usize        *)
(* comparisons are unsigned (UsizeLt).                                     *)
(***************************************************************************)
I32Max == 2147483647
I32Min == (-2147483647) - 1
I16Max == 32767
I16Min == -32768

\* The low and the high 16 bits of an i32's two's-complement pattern.
Lo16(x) == x % 65536
Hi16(x) == (x \div 65536) % 65536

\* The i32 whose pattern has the given halves.
FromHalves(hi, lo) == (IF hi >= 32768 THEN hi - 65536 ELSE hi) * 65536 + lo

\* i32::wrapping_add
wrapping_add(a, b) ==
    LET lo == Lo16(a) + Lo16(b)
        hi == Hi16(a) + Hi16(b) + (lo \div 65536)
    IN  FromHalves(hi % 65536, lo % 65536)

\* i32::wrapping_sub
wrapping_sub(a, b) ==
    LET lo == Lo16(a) - Lo16(b)
        hi == (Hi16(a) - Hi16(b)) + (lo \div 65536)
    IN  FromHalves(hi % 65536, lo % 65536)

\* The low 16 bits of x * y, for 16-bit patterns x and y.
MulLo16(x, y) ==
    ((x % 256) * y + (((x \div 256) * y) % 256) * 256) % 65536

\* i32::wrapping_mul: the low 32 bits of the product, from 16-bit halves.
wrapping_mul(a, b) ==
    LET al == Lo16(a)
        bl == Lo16(b)
        p0 == (al % 256) * bl
        p1 == (al \div 256) * bl
        low == p0 + (p1 % 256) * 256
        carry == (low \div 65536) + (p1 \div 256)
        hi == carry + MulLo16(Hi16(a), bl) + MulLo16(al, Hi16(b))
    IN  FromHalves(hi % 65536, low % 65536)

\* The quotient of a by b > 0, rounded toward zero.
TruncDivPos(a, b) ==
    IF a >= 0 \/ a % b = 0 THEN a \div b ELSE (a \div b) + 1

\* (a variant of wrapping_div for C8: the one overflowing quotient saturates)
wrapping_div_saturating(a, b) ==
    IF b > 0 THEN TruncDivPos(a, b)
    ELSE IF b = I32Min THEN (IF a = I32Min THEN 1 ELSE 0)
    ELSE IF a = I32Min /\ b = -1 THEN I32Max
    ELSE 0 - TruncDivPos(a, 0 - b)

\* i32::wrapping_div for b # 0 (b = 0 panics: see DivPanics).
wrapping_div(a, b) ==
    IF b > 0 THEN TruncDivPos(a, b)
    ELSE IF b = I32Min THEN (IF a = I32Min THEN 1 ELSE 0)
    ELSE IF a = I32Min /\ b = -1 THEN I32Min
    ELSE 0 - TruncDivPos(a, 0 - b)

\* i32::wrapping_rem for b # 0.
wrapping_rem(a, b) ==
    IF a = I32Min /\ b = -1 THEN 0
    ELSE a - wrapping_div(a, b) * b

\* wrapping_div and wrapping_rem panic on a zero divisor, in every build.
DivPanics(b) == b = 0

\* (a variant of i8_from_be_bytes for C20: the byte read unsigned)
u8_from_be_bytes(b) == b

\* i8::from_be_bytes([b])
i8_from_be_bytes(b) == IF b >= 128 THEN b - 256 ELSE b

\* i16::from_be_bytes([param1, param2])
i16_from_be_bytes(param1, param2) ==
    LET u == param1 * 256 + param2
    IN  IF u >= 32768 THEN u - 65536 ELSE u

\* u16::from_be_bytes([param1, param2])
u16_from_be_bytes(param1, param2) == param1 * 256 + param2

\* `x as i16` for a usize x: the low 16 bits, read signed.
as_i16(x) ==
    LET u == x % 65536
    IN  IF u >= 32768 THEN u - 65536 ELSE u

\* An arithmetic result of type i16: with overflow checks (a debug build) an
\* out-of-range result panics, without them (a release build) it wraps.
CheckedI16(x, checks) ==
    IF I16Min <= x /\ x <= I16Max THEN [panic |-> FALSE, v |-> x]
    ELSE IF checks THEN [panic |-> TRUE, v |-> 0]
    ELSE [panic |-> FALSE, v |-> ((x - I16Min) % 65536) + I16Min]

\* a + b of type i32 (the `+=` of iinc), checked or wrapping as above.
CheckedAddI32(a, b, checks) ==
    IF (b >= 0 /\ a <= I32Max - b) \/ (b < 0 /\ a >= I32Min - b)
    THEN [panic |-> FALSE, v |-> a + b]
    ELSE IF checks THEN [panic |-> TRUE, v |-> 0]
    ELSE [panic |-> FALSE, v |-> wrapping_add(a, b)]

\* Unsigned comparison of two usize values.
UsizeLt(a, b) ==
    IF a < 0 THEN (b < 0 /\ a < b) ELSE (b < 0 \/ a < b)


(***************************************************************************)
(* println!("{}", op): the decimal digits of an i32, a '-' before a        *)
(* negative one, and a newline.                                            *)
(***************************************************************************)
DigitChar(d) ==
    CASE d = 0 -> "0" [] d = 1 -> "1" [] d = 2 -> "2" [] d = 3 -> "3"
      [] d = 4 -> "4" [] d = 5 -> "5" [] d = 6 -> "6" [] d = 7 -> "7"
      [] d = 8 -> "8" [] d = 9 -> "9"

\* The digits of -x, for x <= 0 (the negative of I32Min is no i32).
RECURSIVE NegDigits(_)
NegDigits(x) ==
    IF x > -10 THEN <<DigitChar(0 - x)>>
    ELSE NegDigits(wrapping_div(x, 10)) \o <<DigitChar(0 - wrapping_rem(x, 10))>>

Display(op) ==
    IF op < 0 THEN <<"-">> \o NegDigits(op) ELSE NegDigits(0 - op)

\* (a variant of println for C9: the sign is not written)
println_unsigned(op) == NegDigits(IF op < 0 THEN op ELSE 0 - op) \o <<"\n">>

println(op) == Display(op) \o <<"\n">>

(***************************************************************************)
(* The parsed class: ConstantPool entries, Code, Method, ClassFile.        *)
(* A String is the sequence of its characters.                             *)
(***************************************************************************)
Utf8(str) == [tag |-> "Utf8", s |-> str]
Integer(i) == [tag |-> "Integer", bytes |-> i]
Class(i) == [tag |-> "Class", starting_index |-> i]
MethodOrFieldRef(c, nt) ==
    [tag |-> "MethodOrFieldRef", class_index |-> c, name_and_type_index |-> nt]
NameAndType(n, d) ==
    [tag |-> "NameAndType", name_index |-> n, descriptor_index |-> d]

\* Code: code_length is the declared length, code the bytes read (code[pc]
\* of the source is code[pc + 1] here).
Code(ms, ml, bytes) ==
    [max_stack |-> ms, max_locals |-> ml, code_length |-> Len(bytes), code |-> bytes]

Method(n, d, c) == [name |-> n, descriptor |-> d, code |-> c]

ClassFile(cp, ms) == [constant_pool |-> cp, method |-> ms]

\* get_constant panics when index - 1 is no index of the pool (index 0: the
\* subtraction overflows or, wrapped, indexes out of bounds).
get_constant_panics(constant_pool, index) ==
    index < 1 \/ index > Len(constant_pool)

get_constant(constant_pool, index) == constant_pool[index]

\* (a variant of find_method for C13: the name alone decides)
find_method_by_name(name, desc, methods) ==
    LET hits == {i \in 1..Len(methods) : methods[i].name = name}
    IN  IF hits = {} THEN 0
        ELSE CHOOSE i \in hits : \A j \in hits : i <= j

\* find_method: the position (from 1) of the first method with this name and
\* descriptor, 0 where the source panics ("Cannot find requested method").
find_method(name, desc, methods) ==
    LET hits == {i \in 1..Len(methods) :
                    methods[i].name = name /\ methods[i].descriptor = desc}
    IN  IF hits = {} THEN 0
        ELSE CHOOSE i \in hits : \A j \in hits : i <= j

\* get_method_name_and_type: [panic, name_index, descriptor_index].
get_method_name_and_type(cp, index) ==
    LET bad == [panic |-> TRUE, name_index |-> 0, descriptor_index |-> 0]
    IN  IF get_constant_panics(cp, index) THEN bad
        ELSE LET method == get_constant(cp, index)
             IN  IF method.tag # "MethodOrFieldRef" THEN bad
                 ELSE IF get_constant_panics(cp, method.name_and_type_index) THEN bad
                 ELSE LET nt == get_constant(cp, method.name_and_type_index)
                      IN  IF nt.tag # "NameAndType" THEN bad
                          ELSE [panic |-> FALSE, name_index |-> nt.name_index,
                                descriptor_index |-> nt.descriptor_index]

\* find_method_from_index: [panic, m], m the method's position.
find_method_from_index(index, cls) ==
    LET cp == cls.constant_pool
        bad == [panic |-> TRUE, m |-> 0]
        nt == get_method_name_and_type(cp, index)
    IN  IF nt.panic THEN bad
        ELSE IF get_constant_panics(cp, nt.name_index) THEN bad
        ELSE LET name == get_constant(cp, nt.name_index)
             IN  IF name.tag # "Utf8" THEN bad
                 ELSE IF get_constant_panics(cp, nt.descriptor_index) THEN bad
                 ELSE LET descriptor == get_constant(cp, nt.descriptor_index)
                      IN  IF descriptor.tag # "Utf8" THEN bad
                          ELSE LET m == find_method(name.s, descriptor.s, cls.method)
                               IN  IF m = 0 THEN bad ELSE [panic |-> FALSE, m |-> m]

(***************************************************************************)
(* The parser.  The class file is a sequence of bytes; a read of n bytes   *)
(* at the position pos takes file[pos + 1 .. pos + n] and panics           *)
(* (read_exact(..).unwrap()) when fewer are left.                          *)
(***************************************************************************)
\* The characters of the codes 32 .. 126 (the grave accent, which no string
\* of this notation holds, by its code point).
AsciiChars ==
    << " ", "!", "\"", "#", "$", "%", "&", "'", "(", ")", "*", "+", ",", "-",
       ".", "/", "0", "1", "2", "3", "4", "5", "6", "7", "8", "9", ":", ";",
       "<", "=", ">", "?", "@", "A", "B", "C", "D", "E", "F", "G", "H", "I",
       "J", "K", "L", "M", "N", "O", "P", "Q", "R", "S", "T", "U", "V", "W",
       "X", "Y", "Z", "[", "\\", "]", "^", "_", "U+0060", "a", "b", "c", "d", "e",
       "f", "g", "h", "i", "j", "k", "l", "m", "n", "o", "p", "q", "r", "s",
       "t", "u", "v", "w", "x", "y", "z", "{", "|", "}", "~" >>

\* Whether bytes[i ..] is well-formed UTF-8 (what String::from_utf8 accepts).
RECURSIVE Utf8Valid(_, _)
Utf8Valid(bytes, i) ==
    LET n == Len(bytes)
        cont(k) == k <= n /\ bytes[k] >= 128 /\ bytes[k] <= 191
        b == bytes[i]
    IN  IF i > n THEN TRUE
        ELSE IF b < 128 THEN Utf8Valid(bytes, i + 1)
        ELSE IF b >= 194 /\ b <= 223 THEN cont(i + 1) /\ Utf8Valid(bytes, i + 2)
        ELSE IF b >= 224 /\ b <= 239
        THEN /\ cont(i + 1) /\ cont(i + 2)
             /\ b = 224 => bytes[i + 1] >= 160
             /\ b = 237 => bytes[i + 1] <= 159
             /\ Utf8Valid(bytes, i + 3)
        ELSE IF b >= 240 /\ b <= 244
        THEN /\ cont(i + 1) /\ cont(i + 2) /\ cont(i + 3)
             /\ b = 240 => bytes[i + 1] >= 144
             /\ b = 244 => bytes[i + 1] <= 143
             /\ Utf8Valid(bytes, i + 4)
        ELSE FALSE

\* String::from_utf8(bytes).unwrap(): panics on bytes that are not UTF-8;
\* the String of bytes in 32 .. 126 as the sequence of its characters (the
\* class files of the runs hold no other well-formed UTF-8).
from_utf8_panics(bytes) == ~Utf8Valid(bytes, 1)
from_utf8(bytes) == [i \in 1..Len(bytes) |-> AsciiChars[bytes[i] - 31]]

\* i32::from_be_bytes
i32_from_be_bytes(b1, b2, b3, b4) ==
    (IF b1 >= 128 THEN b1 - 256 ELSE b1) * 16777216 + b2 * 65536 + b3 * 256 + b4

\* u32::from_be_bytes(..) as usize, for a value below 2^31; a greater one
\* is the length of a buffer that no file of the runs fills (TooLong).
TooLong(b1) == b1 >= 128
u32_from_be_bytes(b1, b2, b3, b4) == b1 * 16777216 + b2 * 65536 + b3 * 256 + b4

\* read_2_bytes and read_4_bytes at the offset at (from 0) of bytes.
read_2_bytes(bytes, at) == u16_from_be_bytes(bytes[at + 1], bytes[at + 2])
read_4_bytes(bytes, at) ==
    u32_from_be_bytes(bytes[at + 1], bytes[at + 2], bytes[at + 3], bytes[at + 4])

\* read_exact of n bytes at the offset at fails.
Eof(bytes, at, n) == at + n > Len(bytes)

\* One turn of the loop of get_constant_pool, at the offset at:
\* [why, entry, size], why "" where the entry is read, size its bytes.
NoEntry(why) == [why |-> why, entry |-> Integer(0), size |-> 0]
pool_entry(bytes, at) ==
    IF Eof(bytes, at, 1) THEN NoEntry("eof")
    ELSE
    LET tag == bytes[at + 1]
        fixed(n, e) == IF Eof(bytes, at + 1, n) THEN NoEntry("eof")
                       ELSE [why |-> "", entry |-> e, size |-> 1 + n]
    IN  CASE tag = 1 ->
               IF Eof(bytes, at + 1, 2) THEN NoEntry("eof")
               ELSE LET length == read_2_bytes(bytes, at + 1)
                        str == SubSeq(bytes, at + 4, at + 3 + length)
                    IN  IF Eof(bytes, at + 3, length) THEN NoEntry("eof")
                        ELSE IF from_utf8_panics(str) THEN NoEntry("utf8")
                        ELSE [why |-> "", entry |-> Utf8(from_utf8(str)),
                              size |-> 3 + length]
          [] tag = 3 ->
               fixed(4, Integer(i32_from_be_bytes(bytes[at + 2], bytes[at + 3],
                                                  bytes[at + 4], bytes[at + 5])))
          [] tag = 7 -> fixed(2, Class(read_2_bytes(bytes, at + 1)))
          [] tag \in {9, 10} ->
               fixed(4, MethodOrFieldRef(read_2_bytes(bytes, at + 1),
                                         read_2_bytes(bytes, at + 3)))
          [] tag = 12 ->
               fixed(4, NameAndType(read_2_bytes(bytes, at + 1),
                                    read_2_bytes(bytes, at + 3)))
          [] OTHER -> NoEntry("tag")

\* The Utf8 at index of the pool, as get_methods and read_method_attributes
\* take it: [why, s], why "index" where get_constant panics and "variant"
\* at "Expected a UTF8".
utf8_constant(cp, index) ==
    IF get_constant_panics(cp, index) THEN [why |-> "index", s |-> <<>>]
    ELSE IF get_constant(cp, index).tag # "Utf8" THEN [why |-> "variant", s |-> <<>>]
    ELSE [why |-> "", s |-> get_constant(cp, index).s]

\* The decoding of the payload of a Code attribute (the cursor over its
\* attribute_length bytes): [why, code].
NoCode == [max_stack |-> 0, max_locals |-> 0, code_length |-> 0, code |-> <<>>]
\* (a variant of read_code for C17: the code is all that follows the
\* twelve bytes before it)
read_code_rest(attributes) ==
    IF Eof(attributes, 0, 8) THEN [why |-> "eof", code |-> NoCode]
    ELSE IF TooLong(attributes[5]) THEN [why |-> "eof", code |-> NoCode]
    ELSE LET code_length == read_4_bytes(attributes, 4)
         IN  IF Eof(attributes, 8, code_length) THEN [why |-> "eof", code |-> NoCode]
             ELSE [why |-> "",
                   code |-> [max_stack |-> read_2_bytes(attributes, 0),
                             max_locals |-> read_2_bytes(attributes, 2),
                             code_length |-> code_length,
                             code |-> SubSeq(attributes, 9, Len(attributes))]]

read_code(attributes) ==
    IF Eof(attributes, 0, 8) THEN [why |-> "eof", code |-> NoCode]
    ELSE IF TooLong(attributes[5]) THEN [why |-> "eof", code |-> NoCode]
    ELSE LET code_length == read_4_bytes(attributes, 4)
         IN  IF Eof(attributes, 8, code_length) THEN [why |-> "eof", code |-> NoCode]
             ELSE [why |-> "",
                   code |-> [max_stack |-> read_2_bytes(attributes, 0),
                             max_locals |-> read_2_bytes(attributes, 2),
                             code_length |-> code_length,
                             code |-> SubSeq(attributes, 9, 8 + code_length)]]

\* name == "<init>" && (info.access_flags & 0x0008) > 0
init_check_panics(name, access_flags) ==
    name = <<"<", "i", "n", "i", "t", ">">> /\ (access_flags \div 8) % 2 = 1

(***************************************************************************)
(* A frame: one invocation of execute (its method, pc, locals, op_stack    *)
(* and op_count).  locals[i] and op_stack[i] of the source are             *)
(* locals[i + 1] and op_stack[i + 1] here.                                 *)
(***************************************************************************)
Zeros(n) == [i \in 1..n |-> 0]

NewFrame(m, code, locals) ==
    [method |-> m, pc |-> 0, locals |-> locals,
     op_stack |-> Zeros(code.max_stack), op_count |-> 0]

NoFrame == [method |-> 0, pc |-> 0, locals |-> <<>>, op_stack |-> <<>>, op_count |-> 0]

\* vec[i] panics (index out of bounds).
OutOfBounds(vec, i) == i < 0 \/ i >= Len(vec)

\* op_stack[op_count - k] panics: op_count - k underflows, or is no index.
StackReadPanics(f, k) ==
    f.op_count < k \/ OutOfBounds(f.op_stack, f.op_count - k)

\* op_stack[op_count - k]
StackAt(f, k) == f.op_stack[(f.op_count - k) + 1]

\* (a variant of PushPanics for C1: the bound tested one too far)
PushPanics_late(f) == f.op_count > Len(f.op_stack)

\* op_stack[op_count] = v panics.
PushPanics(f) == OutOfBounds(f.op_stack, f.op_count)

\* op_stack[op_count] = v; op_count += 1
Push(f, v) ==
    [f EXCEPT !.op_stack[f.op_count + 1] = v, !.op_count = f.op_count + 1]

\* What one turn of the dispatch loop comes to.
Panic == [kind |-> "panic"]
Continue(f) == [kind |-> "next", frame |-> f, out |-> <<>>]
Printed(f, line) == [kind |-> "next", frame |-> f, out |-> <<line>>]
Returned(some, v) == [kind |-> "ret", some |-> some, v |-> v]
Called(f, callee) == [kind |-> "call", frame |-> f, callee |-> callee]

(***************************************************************************)
(* The arms of execute's match.  f is the running frame, code the method's *)
(* Code; each arm gives what that turn of the loop comes to.               *)
(***************************************************************************)
\* (a variant of branch_target for C18: the offset counted from the
\* instruction after the branch)
branch_target_from_next(pc, res, checks) == CheckedI16(as_i16(pc) + res, checks)

\* (pc as i16 + res - 3) as usize, pc already advanced by 3.
branch_target(pc, res, checks) ==
    LET s1 == CheckedI16(as_i16(pc) + res, checks)
    IN  IF s1.panic THEN s1 ELSE CheckedI16(s1.v - 3, checks)

\* (pc as i16 + res) as usize, pc the address of the goto.
goto_target(pc, res, checks) == CheckedI16(as_i16(pc) + res, checks)

\* The conditions of i_ifeq .. i_ifle on `conditional`.
unary_cond(current, conditional) ==
    CASE current = i_ifeq -> conditional = 0
      [] current = i_ifne -> conditional # 0
      [] current = i_iflt -> conditional < 0
      [] current = i_ifge -> conditional >= 0
      [] current = i_ifgt -> conditional > 0
      [] current = i_ifle -> conditional <= 0

\* The conditions of i_if_icmpeq .. i_if_icmple: op1 is the top of the
\* stack, op2 the entry below it.
binary_cond(current, op1, op2) ==
    CASE current = i_if_icmpeq -> op1 = op2
      [] current = i_if_icmpne -> op1 # op2
      [] current = i_if_icmplt -> op2 < op1
      [] current = i_if_icmpge -> op2 >= op1
      [] current = i_if_icmpgt -> op2 > op1
      [] current = i_if_icmple -> op2 <= op1

\* (a variant of arm_ireturn for C11: the bottom of the stack is returned)
arm_ireturn_bottom(f) ==
    IF StackReadPanics(f, 1) THEN Panic ELSE Returned(TRUE, f.op_stack[1])

\* i_ireturn => return Some(op_stack[op_count - 1])
arm_ireturn(f) ==
    IF StackReadPanics(f, 1) THEN Panic ELSE Returned(TRUE, StackAt(f, 1))

\* i_return => return None
arm_return(f) == Returned(FALSE, 0)

\* (a variant of own_locals_of for C23: the callee's locals are left zeroed)
own_locals_zeroed(f, num_params, max_locals) == [i \in 1..max_locals |-> 0]

\* The loop `for i in (0..num_params).rev()`: own_locals[i] takes the top of
\* the stack, for i from num_params - 1 down to 0.
own_locals_of(f, num_params, max_locals) ==
    [i \in 1..max_locals |->
        IF i <= num_params THEN f.op_stack[(f.op_count - num_params) + i] ELSE 0]

\* i_invokestatic, up to the recursive call of execute.
arm_invokestatic(f, code, cls) ==
    IF OutOfBounds(code.code, f.pc + 1) \/ OutOfBounds(code.code, f.pc + 2) THEN Panic
    ELSE
    LET index == u16_from_be_bytes(code.code[f.pc + 2], code.code[f.pc + 3])
        found == find_method_from_index(index, cls)
    IN  IF found.panic THEN Panic
        ELSE
        LET own_method == cls.method[found.m]
            num_params == Len(own_method.descriptor) - 3
            max_locals == own_method.code.max_locals
        IN  IF num_params < 0 THEN Panic
            ELSE IF num_params > max_locals THEN Panic
            ELSE IF f.op_count < num_params THEN Panic
            ELSE IF num_params > 0 /\ OutOfBounds(f.op_stack, f.op_count - 1) THEN Panic
            ELSE Called([f EXCEPT !.op_count = f.op_count - num_params],
                        NewFrame(found.m, own_method.code,
                                 own_locals_of(f, num_params, max_locals)))

\* (a variant of resume for C5: the result stored at the bottom of the stack)
resume_at_bottom(f, some, res) ==
    IF some
    THEN IF PushPanics(f) THEN Panic
         ELSE Continue([f EXCEPT !.op_stack[1] = res, !.op_count = 1, !.pc = f.pc + 3])
    ELSE Continue([f EXCEPT !.pc = f.pc + 3])

\* i_invokestatic, from the return of the recursive call: the caller f takes
\* the result, if there is one, and moves past the instruction.
resume(f, some, res) ==
    IF some
    THEN IF PushPanics(f) THEN Panic
         ELSE Continue([Push(f, res) EXCEPT !.pc = f.pc + 3])
    ELSE Continue([f EXCEPT !.pc = f.pc + 3])

\* i_ifeq .. i_ifle
arm_if(f, code, current, checks) ==
    IF OutOfBounds(code.code, f.pc + 1) \/ OutOfBounds(code.code, f.pc + 2) THEN Panic
    ELSE IF StackReadPanics(f, 1) THEN Panic
    ELSE
    LET conditional == StackAt(f, 1)
        pc == f.pc + 3
    IN  IF unary_cond(current, conditional)
        THEN LET res == i16_from_be_bytes(code.code[f.pc + 2], code.code[f.pc + 3])
                 t == branch_target(pc, res, checks)
             IN  IF t.panic THEN Panic
                 ELSE Continue([f EXCEPT !.pc = t.v, !.op_count = f.op_count - 1])
        ELSE Continue([f EXCEPT !.pc = pc, !.op_count = f.op_count - 1])

\* i_if_icmpeq .. i_if_icmple
arm_if_icmp(f, code, current, checks) ==
    IF OutOfBounds(code.code, f.pc + 1) \/ OutOfBounds(code.code, f.pc + 2) THEN Panic
    ELSE IF StackReadPanics(f, 1) \/ StackReadPanics(f, 2) THEN Panic
    ELSE
    LET op1 == StackAt(f, 1)
        op2 == StackAt(f, 2)
        pc == f.pc + 3
    IN  IF binary_cond(current, op1, op2)
        THEN LET res == i16_from_be_bytes(code.code[f.pc + 2], code.code[f.pc + 3])
                 t == branch_target(pc, res, checks)
             IN  IF t.panic THEN Panic
                 ELSE Continue([f EXCEPT !.pc = t.v, !.op_count = f.op_count - 2])
        ELSE Continue([f EXCEPT !.pc = pc, !.op_count = f.op_count - 2])

\* i_goto
arm_goto(f, code, checks) ==
    IF OutOfBounds(code.code, f.pc + 1) \/ OutOfBounds(code.code, f.pc + 2) THEN Panic
    ELSE
    LET res == i16_from_be_bytes(code.code[f.pc + 2], code.code[f.pc + 3])
        t == goto_target(f.pc, res, checks)
    IN  IF t.panic THEN Panic ELSE Continue([f EXCEPT !.pc = t.v])

\* (a variant of arm_ldc for C21: a constant of another variant pushes 0)
arm_ldc_lenient(f, code, cls) ==
    IF OutOfBounds(code.code, f.pc + 1) THEN Panic
    ELSE
    LET param == code.code[f.pc + 2]
    IN  IF get_constant_panics(cls.constant_pool, param) THEN Panic
        ELSE
        LET info == get_constant(cls.constant_pool, param)
        IN  IF PushPanics(f) THEN Panic
            ELSE Continue([Push(f, IF info.tag = "Integer" THEN info.bytes ELSE 0)
                              EXCEPT !.pc = f.pc + 2])

\* i_ldc
arm_ldc(f, code, cls) ==
    IF OutOfBounds(code.code, f.pc + 1) THEN Panic
    ELSE
    LET param == code.code[f.pc + 2]
    IN  IF get_constant_panics(cls.constant_pool, param) THEN Panic
        ELSE
        LET info == get_constant(cls.constant_pool, param)
        IN  IF info.tag # "Integer" THEN Panic
            ELSE IF PushPanics(f) THEN Panic
            ELSE Continue([Push(f, info.bytes) EXCEPT !.pc = f.pc + 2])

\* locals[param] onto the stack, pc moved by len.
load_local(f, param, len) ==
    IF OutOfBounds(f.locals, param) THEN Panic
    ELSE IF PushPanics(f) THEN Panic
    ELSE Continue([Push(f, f.locals[param + 1]) EXCEPT !.pc = f.pc + len])

\* i_iload_0 ..= i_iload_3
arm_iload_n(f, current) == load_local(f, current - i_iload_0, 1)

\* i_iload
arm_iload(f, code) ==
    IF OutOfBounds(code.code, f.pc + 1) THEN Panic
    ELSE load_local(f, code.code[f.pc + 2], 2)

\* The top of the stack into locals[param], pc moved by len.
store_local(f, param, len) ==
    IF StackReadPanics(f, 1) THEN Panic
    ELSE IF OutOfBounds(f.locals, param) THEN Panic
    ELSE Continue([f EXCEPT !.locals[param + 1] = StackAt(f, 1),
                            !.pc = f.pc + len, !.op_count = f.op_count - 1])

\* i_istore
arm_istore(f, code) ==
    IF OutOfBounds(code.code, f.pc + 1) THEN Panic
    ELSE store_local(f, code.code[f.pc + 2], 2)

\* i_istore_0 ..= i_istore_3
arm_istore_n(f, current) == store_local(f, current - i_istore_0, 1)

\* i_iinc
arm_iinc(f, code, checks) ==
    IF OutOfBounds(code.code, f.pc + 1) \/ OutOfBounds(code.code, f.pc + 2) THEN Panic
    ELSE
    LET i == code.code[f.pc + 2]
        b == i8_from_be_bytes(code.code[f.pc + 3])
    IN  IF OutOfBounds(f.locals, i) THEN Panic
        ELSE LET sum == CheckedAddI32(f.locals[i + 1], b, checks)
             IN  IF sum.panic THEN Panic
                 ELSE Continue([f EXCEPT !.locals[i + 1] = sum.v, !.pc = f.pc + 3])

\* i_bipush
arm_bipush(f, code) ==
    IF OutOfBounds(code.code, f.pc + 1) THEN Panic
    ELSE IF PushPanics(f) THEN Panic
    ELSE Continue([Push(f, i8_from_be_bytes(code.code[f.pc + 2])) EXCEPT !.pc = f.pc + 2])

\* (a variant of binary_res for C7: isub takes op2 from op1)
binary_res_reversed(current, op1, op2) ==
    CASE current = i_iadd -> wrapping_add(op1, op2)
      [] current = i_isub -> wrapping_sub(op1, op2)
      [] current = i_imul -> wrapping_mul(op2, op1)
      [] current = i_idiv -> wrapping_div(op2, op1)
      [] current = i_irem -> wrapping_rem(op2, op1)

\* The result of i_iadd, i_isub, i_imul, i_idiv, i_irem on op1 (the top)
\* and op2 (the entry below).
binary_res(current, op1, op2) ==
    CASE current = i_iadd -> wrapping_add(op1, op2)
      [] current = i_isub -> wrapping_sub(op2, op1)
      [] current = i_imul -> wrapping_mul(op2, op1)
      [] current = i_idiv -> wrapping_div(op2, op1)
      [] current = i_irem -> wrapping_rem(op2, op1)

\* i_iadd, i_isub, i_imul, i_idiv, i_irem
arm_binary(f, current) ==
    IF StackReadPanics(f, 1) \/ StackReadPanics(f, 2) THEN Panic
    ELSE
    LET op1 == StackAt(f, 1)
        op2 == StackAt(f, 2)
    IN  IF current \in {i_idiv, i_irem} /\ DivPanics(op1) THEN Panic
        ELSE Continue([f EXCEPT !.op_stack[f.op_count - 1] = binary_res(current, op1, op2),
                                !.op_count = f.op_count - 1, !.pc = f.pc + 1])

\* i_ineg
arm_ineg(f) ==
    IF StackReadPanics(f, 1) THEN Panic
    ELSE Continue([f EXCEPT !.op_stack[f.op_count] = wrapping_mul(StackAt(f, 1), -1),
                            !.pc = f.pc + 1])

\* i_getstatic
arm_getstatic(f) == Continue([f EXCEPT !.pc = f.pc + 3])

\* i_invokevirtual
arm_invokevirtual(f) ==
    IF StackReadPanics(f, 1) THEN Panic
    ELSE Printed([f EXCEPT !.op_count = f.op_count - 1, !.pc = f.pc + 3],
                 println(StackAt(f, 1)))

\* i_iconst_m1 ..= i_iconst_5
arm_iconst(f, current) ==
    IF PushPanics(f) THEN Panic
    ELSE Continue([Push(f, current - i_iconst_0) EXCEPT !.pc = f.pc + 1])

\* i_sipush
arm_sipush(f, code) ==
    IF OutOfBounds(code.code, f.pc + 1) \/ OutOfBounds(code.code, f.pc + 2) THEN Panic
    ELSE IF PushPanics(f) THEN Panic
    ELSE Continue([Push(f, i16_from_be_bytes(code.code[f.pc + 2], code.code[f.pc + 3]))
                      EXCEPT !.pc = f.pc + 3])

\* (a variant of arm_default for C10: the byte is skipped)
arm_default_skip(f) == Continue([f EXCEPT !.pc = f.pc + 1])

\* _ => unreachable!()
arm_default(f) == Panic

\* The bytes some arm other than the last matches.
Matched ==
    {i_ireturn, i_return, i_invokestatic, i_goto, i_ldc, i_iload, i_istore, i_iinc,
     i_bipush, i_iadd, i_isub, i_imul, i_idiv, i_irem, i_ineg, i_getstatic,
     i_invokevirtual, i_sipush}
    \cup (i_ifeq..i_ifle) \cup (i_if_icmpeq..i_if_icmple)
    \cup (i_iload_0..i_iload_3) \cup (i_istore_0..i_istore_3)
    \cup (i_iconst_m1..i_iconst_5)

(***************************************************************************)
(* The class files the runs start from.                                    *)
(***************************************************************************)
MainName == <<"m", "a", "i", "n">>
\* (a variant of MainDescriptor for C12: a main without parameters)
MainDescriptor_noargs == <<"(", ")", "V">>

MainDescriptor ==
    <<"(", "[", "L", "j", "a", "v", "a", "/", "l", "a", "n", "g", "/",
      "S", "t", "r", "i", "n", "g", ";", ")", "V">>
FName == <<"f">>

\* The two bytes of a 16-bit value, big-endian.
BeBytes(v) == LET u == v % 65536 IN <<u \div 256, u % 256>>

\* The i32 values the probes compute with.
Vals == {I32Min, -7, -1, 0, 1, 2, 65536, I32Max}

\* The constant pool of a probe class: two Integers, the Ref of the static
\* method f at 6, and Refs that do not resolve.
ProbePool(a, b, fdesc) ==
    << Integer(a), Integer(b), Utf8(FName), Utf8(fdesc), NameAndType(3, 4),
       MethodOrFieldRef(8, 5), Utf8(MainName), Class(9),
       Utf8(<<"P", "r", "o", "b", "e">>), Utf8(<<"C", "o", "d", "e">>),
       MethodOrFieldRef(8, 1), NameAndType(1, 4), MethodOrFieldRef(8, 12),
       NameAndType(9, 4), MethodOrFieldRef(8, 14), MethodOrFieldRef(8, 0),
       MethodOrFieldRef(8, 99), NameAndType(3, 2), MethodOrFieldRef(8, 18) >>

ProbeClass(a, b, mstack, mlocals, mcode, fdesc, fstack, flocals, fcode) ==
    ClassFile(ProbePool(a, b, fdesc),
              << Method(MainName, MainDescriptor, Code(mstack, mlocals, mcode)),
                 Method(FName, fdesc, Code(fstack, flocals, fcode)) >>)

\* ldc of the first k pool entries.
Pushes(k) ==
    CASE k = 0 -> <<>>
      [] k = 1 -> <<i_ldc, 1>>
      [] k = 2 -> <<i_ldc, 1, i_ldc, 2>>

PrintAndReturn == <<i_invokevirtual, 0, 0, i_return>>

BranchOps == (i_ifeq..i_if_icmple) \cup {i_goto}
Offsets == {-32768, -3, -2, 0, 3, 6, 7, 32767}
OperandBytes == {0, 1, 2, 127, 128, 255}
WithOperands ==
    {i_bipush, i_sipush, i_ldc, i_iload, i_istore, i_iinc, i_getstatic,
     i_invokevirtual, i_invokestatic} \cup BranchOps

\* One instruction (or one byte that is none), with its operand bytes.
BranchInstrs == {<<op>> \o BeBytes(off) : op \in BranchOps, off \in Offsets}
OtherInstrs ==
    {<<op>> : op \in (0..255) \ WithOperands}
    \cup {<<op, b>> : op \in {i_bipush, i_iload, i_istore}, b \in OperandBytes}
    \cup {<<i_ldc, k>> : k \in {0, 1, 2, 3, 19, 20, 200}}
    \cup {<<i_iinc, i, b>> : i \in {0, 1, 2}, b \in {1, 127, 128, 255}}
    \cup {<<i_sipush>> \o BeBytes(v) : v \in {-32768, -1, 0, 1, 256, 32767}}
    \cup {<<op, b, 6>> : op \in {i_getstatic, i_invokevirtual}, b \in {0, 255}}
    \cup {<<i_invokestatic>> \o BeBytes(k) :
             k \in {0, 1, 6, 11, 13, 15, 16, 17, 19, 20, 262}}
\* An instruction cut short by the end of the code.
CutInstrs ==
    {<<op>> : op \in WithOperands} \cup {<<op, 0>> : op \in WithOperands}

ValueOps ==
    {i_iadd, i_isub, i_imul, i_idiv, i_irem, i_ineg, i_invokevirtual, i_istore_0}
    \cup (i_ifeq..i_if_icmple)

\* Operands for a probe of op whose operand bytes do not matter, or a branch
\* over the following invokevirtual.
ValueInstr(op) ==
    IF op \in BranchOps \cup {i_invokevirtual} THEN <<op, 0, 6>> ELSE <<op>>

FRet == <<i_iload_0, i_ireturn>>

\* main: ldc a; ldc b; one instruction on them; print; return.
ValueProbe(a, b, op) ==
    ProbeClass(a, b, 2, 2, Pushes(2) \o ValueInstr(op) \o PrintAndReturn,
               <<"(", "I", ")", "I">>, 1, 1, FRet)

\* main: k pushes on a stack of ms entries, then the bytes x and tail.
StackProbe(k, ms, ab, x, tail) ==
    ProbeClass(ab[1], ab[2], ms, 2, Pushes(k) \o x \o tail,
               <<"(", "I", ")", "I">>, 1, 1, FRet)

\* The operands of the branch probes.
BranchVals == {<<1, 0>>, <<0, 0>>, <<0, 1>>, <<-1, -1>>}

\* main: a local set to a, then iinc of local i by the byte b, then print.
IincProbe(a, ml, i, b) ==
    ProbeClass(a, 0, 1, ml,
               <<i_ldc, 1, i_istore_0, i_iinc, i, b, i_iload_0>> \o PrintAndReturn,
               <<"(", "I", ")", "I">>, 1, 1, FRet)

\* The descriptors of f in the call probes.
FDescs ==
    { <<"(", ")", "V">>, <<"(", ")", "I">>, <<"(", "I", ")", "V">>,
      <<"(", "I", ")", "I">>, <<"(", "I", "I", ")", "I">>,
      <<"(", "I", "I", ")", "V">>, <<"(", "I", "I", "I", ")", "I">>,
      <<"(", ")", "[", "I">>, <<"(", "I", ")", "[", "I">>, <<"I">> }

\* The bodies of f in the call probes.
FCodes ==
    { <<i_iload_0, i_iload_0 + 1, i_isub, i_ireturn>>,
      <<i_iload_0, i_ireturn>>,
      <<i_return>>,
      <<>>,
      <<i_bipush, 7, i_istore_0 + 2, i_iload_0 + 2, i_ireturn>>,
      <<i_ireturn>>,
      <<i_iload_0 + 1, i_invokevirtual, 0, 0, i_iconst_5, i_istore_0, i_return>>,
      <<i_iconst_0 + 1, i_iconst_0 + 2, i_invokestatic, 0, 6, i_ireturn>>,
      <<i_iload_0, i_iload_0 + 1, i_ireturn>> }

\* main: ldc 5; ldc 3; invokestatic f; print; return.
CallProbe(ms, fdesc, fs, fl, fcode) ==
    ProbeClass(5, 3, ms, 1, Pushes(2) \o <<i_invokestatic, 0, 6>> \o PrintAndReturn,
               fdesc, fs, fl, fcode)

\* A class without a main method.
NoMain ==
    ClassFile(ProbePool(0, 0, <<"(", ")", "V">>),
              << Method(FName, MainDescriptor, Code(1, 1, <<i_return>>)),
                 Method(MainName, <<"(", ")", "V">>, Code(1, 1, <<i_return>>)) >>)

\* static int sum(int n){return n==0?0:n+sum(n-1);}  main: print sum(10);
SumClass ==
    ClassFile(<< Utf8(<<"s", "u", "m">>), Utf8(<<"(", "I", ")", "I">>),
                 NameAndType(1, 2), MethodOrFieldRef(5, 3), Class(6),
                 Utf8(<<"S", "u", "m">>) >>,
              << Method(MainName, MainDescriptor,
                        Code(2, 1, <<i_getstatic, 0, 7, i_bipush, 10,
                                     i_invokestatic, 0, 4>> \o PrintAndReturn)),
                 Method(<<"s", "u", "m">>, <<"(", "I", ")", "I">>,
                        Code(3, 1, <<i_iload_0, i_ifne, 0, 5, i_iconst_0, i_ireturn,
                                     i_iload_0, i_iload_0, i_iconst_0 + 1, i_isub,
                                     i_invokestatic, 0, 4, i_iadd, i_ireturn>>)) >>)

\* The same source as javac compiles it: the two branches of the
\* conditional meet at the ireturn.
SumJavac ==
    ClassFile(SumClass.constant_pool,
              << SumClass.method[1],
                 Method(<<"s", "u", "m">>, <<"(", "I", ")", "I">>,
                        Code(3, 1, <<i_iload_0, i_ifne, 0, 7, i_iconst_0, i_goto, 0, 11,
                                     i_iload_0, i_iload_0, i_iconst_0 + 1, i_isub,
                                     i_invokestatic, 0, 4, i_iadd, i_ireturn>>)) >>)

\* static int inc(int x){return x+1;}  static int twice(int x){return
\* inc(inc(x));}  main: print twice(10);
TwiceClass ==
    ClassFile(<< Utf8(<<"i", "n", "c">>), Utf8(<<"(", "I", ")", "I">>),
                 NameAndType(1, 2), MethodOrFieldRef(8, 3),
                 Utf8(<<"t", "w", "i", "c", "e">>), NameAndType(5, 2),
                 MethodOrFieldRef(8, 6), Class(5) >>,
              << Method(MainName, MainDescriptor,
                        Code(2, 1, <<i_getstatic, 0, 9, i_bipush, 10,
                                     i_invokestatic, 0, 7>> \o PrintAndReturn)),
                 Method(<<"i", "n", "c">>, <<"(", "I", ")", "I">>,
                        Code(2, 1, <<i_iload_0, i_iconst_0 + 1, i_iadd, i_ireturn>>)),
                 Method(<<"t", "w", "i", "c", "e">>, <<"(", "I", ")", "I">>,
                        Code(1, 1, <<i_iload_0, i_invokestatic, 0, 4,
                                     i_invokestatic, 0, 4, i_ireturn>>)) >>)

\* A main of LongLength bytes: a goto from 0 to 32767, an iconst_0 there, at
\* 32768 a goto over three bytes to the print and return that end the code.
LongLength == 32775
LongCode ==
    [i \in 1..LongLength |->
        CASE i = 1 -> i_goto [] i = 2 -> 127 [] i = 3 -> 255
          [] i = 32768 -> i_iconst_0
          [] i = 32769 -> i_goto [] i = 32770 -> 0 [] i = 32771 -> 3
          [] i = 32772 -> i_invokevirtual
          [] i = 32775 -> i_return
          [] OTHER -> 0]
LongClass ==
    ClassFile(ProbePool(0, 0, <<"(", ")", "V">>),
              << Method(MainName, MainDescriptor, Code(1, 1, LongCode)) >>)

\* A main of forward branches only: a goto from 0 to 32767, an iconst_0
\* there, an istore_0 at 32768 and at 32769 a goto of the offset 32767 that
\* ends the code.
WrapCode ==
    [i \in 1..(LongLength - 3) |->
        CASE i = 1 -> i_goto [] i = 2 -> 127 [] i = 3 -> 255
          [] i = 32768 -> i_iconst_0
          [] i = 32769 -> i_istore_0
          [] i = 32770 -> i_goto [] i = 32771 -> 127 [] i = 32772 -> 255
          [] OTHER -> 0]
WrapClass ==
    ClassFile(ProbePool(0, 0, <<"(", ")", "V">>),
              << Method(MainName, MainDescriptor, Code(1, 1, WrapCode)) >>)

\* Method lookup: a pool whose Refs name (f, (I)I) at 9, (main, (I)I) at 11,
\* (f, main's descriptor) at 13, (g, (I)I) at 15 and ((I)I, f) at 17, and
\* the methods main, g, f and a second f; main: ldc 1; invokestatic k;
\* print; return.
LookupPool ==
    << Integer(4), Utf8(FName), Utf8(<<"g">>), Utf8(MainName),
       Utf8(<<"(", "I", ")", "I">>), Utf8(MainDescriptor), Class(2),
       NameAndType(2, 5), MethodOrFieldRef(7, 8),
       NameAndType(4, 5), MethodOrFieldRef(7, 10),
       NameAndType(2, 6), MethodOrFieldRef(7, 12),
       NameAndType(3, 5), MethodOrFieldRef(7, 14),
       NameAndType(5, 2), MethodOrFieldRef(7, 16) >>
LookupRefs == {9, 11, 13, 15, 17}
LookupClass(k) ==
    ClassFile(LookupPool,
              << Method(MainName, MainDescriptor,
                        Code(1, 1, <<i_ldc, 1, i_invokestatic>> \o BeBytes(k)
                                   \o PrintAndReturn)),
                 Method(<<"g">>, <<"(", "I", ")", "I">>,
                        Code(1, 1, <<i_iconst_0 + 1, i_ireturn>>)),
                 Method(FName, <<"(", "I", ")", "I">>,
                        Code(1, 1, <<i_iconst_0 + 2, i_ireturn>>)),
                 Method(FName, <<"(", "I", ")", "I">>,
                        Code(1, 1, <<i_iconst_0 + 3, i_ireturn>>)) >>)

\* Two methods main with the descriptor of the entry point, after a main
\* with another descriptor: the first prints 1, the second 2.
TwoMains ==
    ClassFile(LookupPool,
              << Method(MainName, <<"(", ")", "V">>, Code(1, 1, <<i_return>>)),
                 Method(MainName, MainDescriptor,
                        Code(1, 3, <<i_iconst_0 + 1>> \o PrintAndReturn)),
                 Method(MainName, MainDescriptor,
                        Code(1, 1, <<i_iconst_0 + 2>> \o PrintAndReturn)) >>)

\* The class files of the runs.
IsInput(c) ==
    \/ \E a \in Vals, b \in Vals, op \in ValueOps : c = ValueProbe(a, b, op)
    \/ \E k \in 0..2, ms \in 0..3, x \in OtherInstrs \cup CutInstrs :
          c = StackProbe(k, ms, <<1, 0>>, x, PrintAndReturn)
    \/ \E k \in 0..2, ms \in 2..3, x \in CutInstrs :
          c = StackProbe(k, ms, <<1, 0>>, x, <<>>)
    \/ \E k \in 0..2, ab \in BranchVals, x \in BranchInstrs :
          c = StackProbe(k, 2, ab, x, PrintAndReturn)
    \/ \E a \in Vals, ml \in 1..2, i \in 0..1, b \in {0, 1, 127, 128, 255} :
          c = IincProbe(a, ml, i, b)
    \/ \E ms \in 2..3, fdesc \in FDescs, fs \in {0, 2}, fl \in 0..3, fcode \in FCodes :
          c = CallProbe(ms, fdesc, fs, fl, fcode)
    \/ \E k \in LookupRefs : c = LookupClass(k)
    \/ c \in {NoMain, SumClass, SumJavac, TwiceClass, LongClass, WrapClass, TwoMains}

(***************************************************************************)
(* The state: the parsed class, the build (overflow_checks), the stack of  *)
(* running invocations of execute (the innermost last), the lines written  *)
(* to standard output, and where the process is (status).  steps counts    *)
(* the turns taken; last records the latest turn (the byte dispatched, the *)
(* frame before it and the frame of its caller, what it came to) and saved *)
(* keeps, for every invocation but the innermost, its frame as its         *)
(* invokestatic found it.                                                  *)
(***************************************************************************)
TopFrame == frames[Len(frames)]
TopCode == class.method[TopFrame.method].code

NoTurn ==
    [op |-> -1, depth |-> 0, pre |-> NoFrame, kind |-> "none", some |-> FALSE,
     v |-> 0, caller |-> NoFrame, below |-> NoFrame]

\* The locals of the parser at its start, and where no parser runs.
NoInfo == [access_flags |-> 0, name |-> <<>>, descriptor |-> <<>>]
StartParse ==
    [phase |-> "header", pos |-> 0, why |-> "", count |-> 0, cp |-> <<>>,
     method_count |-> 0, methods |-> <<>>, info |-> NoInfo, acount |-> 0,
     codes |-> NoCode, found_code |-> FALSE]
NoParse == [StartParse EXCEPT !.phase = "idle"]

Init == /\ IsInput(class)
        /\ file = <<>>
        /\ parse = NoParse
        /\ trail = <<>>
        /\ overflow_checks \in BOOLEAN
        /\ frames = <<>>
        /\ output = <<>>
        /\ status = "parsed"
        /\ steps = 0
        /\ last = NoTurn
        /\ saved = <<>>

\* main, from the parsed class to the call of execute.
MainStart ==
    /\ status = "parsed"
    /\ LET m == find_method(MainName, MainDescriptor, class.method)
       IN  IF m = 0
           THEN /\ status' = "panic"
                /\ frames' = frames
           ELSE /\ status' = "running"
                /\ frames' = <<NewFrame(m, class.method[m].code,
                                        Zeros(class.method[m].code.max_locals))>>
    /\ last' = [NoTurn EXCEPT !.kind = "start"]
    /\ UNCHANGED <<class, overflow_checks, output, steps, saved, file, parse, trail>>

\* `while pc < code.code_length as usize` holds in the innermost invocation.
InLoop ==
    /\ status = "running"
    /\ steps < MaxSteps
    /\ UsizeLt(TopFrame.pc, TopCode.code_length)

\* let current = code_buf[pc]
Current == TopCode.code[TopFrame.pc + 1]

\* The state after a turn of the innermost invocation that came to o.
Take(o, current) ==
    LET n == Len(frames)
        turn == [NoTurn EXCEPT !.op = current, !.depth = n, !.pre = frames[n],
                               !.below = IF n > 1 THEN frames[n - 1] ELSE NoFrame]
        panicked ==
            /\ status' = "panic"
            /\ last' = [turn EXCEPT !.kind = "panic"]
            /\ UNCHANGED <<frames, output, saved>>
    IN
    /\ steps' = steps + 1
    /\ UNCHANGED <<class, overflow_checks, file, parse, trail>>
    /\ CASE o.kind = "panic" -> panicked
         [] o.kind = "next" ->
              /\ frames' = [frames EXCEPT ![n] = o.frame]
              /\ output' = output \o o.out
              /\ last' = [turn EXCEPT !.kind = "next"]
              /\ UNCHANGED <<status, saved>>
         [] o.kind = "call" ->
              /\ frames' = Append([frames EXCEPT ![n] = o.frame], o.callee)
              /\ saved' = Append(saved, frames[n])
              /\ last' = [turn EXCEPT !.kind = "call"]
              /\ UNCHANGED <<status, output>>
         [] o.kind = "ret" ->
              IF n = 1
              THEN \* back in main: `if let Some(_) = result { panic!(...) }`
                   /\ status' = IF o.some THEN "panic" ELSE "exited"
                   /\ frames' = <<>>
                   /\ last' = [turn EXCEPT !.kind = "ret", !.some = o.some, !.v = o.v]
                   /\ UNCHANGED <<output, saved>>
              ELSE LET r == resume(frames[n - 1], o.some, o.v)
                   IN  IF r.kind = "panic" THEN panicked
                       ELSE /\ frames' = [SubSeq(frames, 1, n - 1) EXCEPT ![n - 1] = r.frame]
                            /\ saved' = SubSeq(saved, 1, n - 2)
                            /\ last' = [turn EXCEPT !.kind = "ret", !.some = o.some,
                                                    !.v = o.v, !.caller = saved[n - 1]]
                            /\ UNCHANGED <<status, output>>

\* The loop ends: `None` after it.
LoopExit ==
    /\ status = "running"
    /\ steps < MaxSteps
    /\ ~UsizeLt(TopFrame.pc, TopCode.code_length)
    /\ Take(Returned(FALSE, 0), -1)

Ireturn == InLoop /\ Current = i_ireturn /\ Take(arm_ireturn(TopFrame), Current)

Return == InLoop /\ Current = i_return /\ Take(arm_return(TopFrame), Current)

Invokestatic ==
    /\ InLoop
    /\ Current = i_invokestatic
    /\ LET o == arm_invokestatic(TopFrame, TopCode, class)
       IN  /\ o.kind = "call" => Len(frames) < MaxDepth
           /\ Take(o, Current)

If ==
    /\ InLoop
    /\ Current \in i_ifeq..i_ifle
    /\ Take(arm_if(TopFrame, TopCode, Current, overflow_checks), Current)

IfIcmp ==
    /\ InLoop
    /\ Current \in i_if_icmpeq..i_if_icmple
    /\ Take(arm_if_icmp(TopFrame, TopCode, Current, overflow_checks), Current)

Goto ==
    InLoop /\ Current = i_goto /\ Take(arm_goto(TopFrame, TopCode, overflow_checks), Current)

Ldc == InLoop /\ Current = i_ldc /\ Take(arm_ldc(TopFrame, TopCode, class), Current)

IloadN ==
    InLoop /\ Current \in i_iload_0..i_iload_3 /\ Take(arm_iload_n(TopFrame, Current), Current)

Iload == InLoop /\ Current = i_iload /\ Take(arm_iload(TopFrame, TopCode), Current)

Istore == InLoop /\ Current = i_istore /\ Take(arm_istore(TopFrame, TopCode), Current)

IstoreN ==
    InLoop /\ Current \in i_istore_0..i_istore_3 /\ Take(arm_istore_n(TopFrame, Current), Current)

Iinc ==
    InLoop /\ Current = i_iinc /\ Take(arm_iinc(TopFrame, TopCode, overflow_checks), Current)

Bipush == InLoop /\ Current = i_bipush /\ Take(arm_bipush(TopFrame, TopCode), Current)

Binary ==
    /\ InLoop
    /\ Current \in {i_iadd, i_isub, i_imul, i_idiv, i_irem}
    /\ Take(arm_binary(TopFrame, Current), Current)

Ineg == InLoop /\ Current = i_ineg /\ Take(arm_ineg(TopFrame), Current)

Getstatic == InLoop /\ Current = i_getstatic /\ Take(arm_getstatic(TopFrame), Current)

Invokevirtual ==
    InLoop /\ Current = i_invokevirtual /\ Take(arm_invokevirtual(TopFrame), Current)

Iconst ==
    InLoop /\ Current \in i_iconst_m1..i_iconst_5 /\ Take(arm_iconst(TopFrame, Current), Current)

Sipush == InLoop /\ Current = i_sipush /\ Take(arm_sipush(TopFrame, TopCode), Current)

Default == InLoop /\ Current \notin Matched /\ Take(arm_default(TopFrame), Current)

Next ==
    \/ MainStart
    \/ LoopExit
    \/ Ireturn
    \/ Return
    \/ Invokestatic
    \/ If
    \/ IfIcmp
    \/ Goto
    \/ Ldc
    \/ IloadN
    \/ Iload
    \/ Istore
    \/ IstoreN
    \/ Iinc
    \/ Bipush
    \/ Binary
    \/ Ineg
    \/ Getstatic
    \/ Invokevirtual
    \/ Iconst
    \/ Sipush
    \/ Default

Spec == Init /\ [][Next]_vars

(***************************************************************************)
(* The parser as a state machine: file is the class file, parse the        *)
(* locals of get_class and of the functions it calls (phase: where it is;  *)
(* pos: the bytes consumed; why: the panic that ended it), trail the       *)
(* attributes read so far of the method record being read (the name, the   *)
(* offset of the payload in the file, the declared length).                *)
(***************************************************************************)
MaxAttrs == 3

\* The bytes of the class files of the parser's runs.
Header == <<202, 254, 186, 190, 0, 0, 0, 52>>
U4(v) == <<0, 0>> \o BeBytes(v)
CodeBytes == <<67, 111, 100, 101>>
LowerCodeBytes == <<99, 111, 100, 101>>
MainBytes == <<109, 97, 105, 110>>
InitBytes == <<60, 105, 110, 105, 116, 62>>
VoidBytes == <<40, 41, 86>>
MainDescriptorBytes ==
    <<40, 91, 76, 106, 97, 118, 97, 47, 108, 97, 110, 103, 47, 83, 116, 114,
      105, 110, 103, 59, 41, 86>>
Utf8Entry(bytes) == <<1>> \o BeBytes(Len(bytes)) \o bytes

RECURSIVE Concat(_)
Concat(seqs) == IF seqs = <<>> THEN <<>> ELSE Head(seqs) \o Concat(Tail(seqs))

\* A pool of eleven entries: "Code" at 1, "main" at 2, its descriptor at 3,
\* "<init>" at 4, "()V" at 5, "code" at 6, an Integer at 7, a Class at 8, a
\* NameAndType at 9, a Methodref at 10 and a Fieldref at 11.
GoodEntries ==
    << Utf8Entry(CodeBytes), Utf8Entry(MainBytes), Utf8Entry(MainDescriptorBytes),
       Utf8Entry(InitBytes), Utf8Entry(VoidBytes), Utf8Entry(LowerCodeBytes),
       <<3, 255, 255, 255, 249>>, <<7, 0, 2>>, <<12, 0, 2, 0, 3>>,
       <<10, 0, 8, 0, 9>>, <<9, 0, 8, 0, 9>> >>

\* Entries put after them: Refs and NameAndTypes whose links are 0, beyond
\* the pool or of another variant, tags that are none, Utf8 of no and of
\* malformed bytes.
ExtraEntries ==
    { <<10, 0, 8, 0, 0>>, <<10, 0, 8, 0, 99>>, <<10, 0, 8, 0, 1>>, <<9, 0, 8, 0, 7>>,
      <<12, 0, 7, 0, 3>>, <<12, 0, 2, 0, 0>>, <<12, 0, 2, 0, 10>>, <<12, 0, 99, 0, 3>>,
      <<10, 0, 8, 0, 12>>, <<10, 0, 0, 0, 9>>,
      <<0>>, <<5, 0, 0, 0, 0, 0, 0, 0, 1>>, <<8, 0, 2>>, <<11, 0, 0>>, <<255>>,
      Utf8Entry(<<>>), Utf8Entry(<<255>>), Utf8Entry(<<195, 40>>),
      <<3, 128, 0, 0, 0>> }

PoolBytes(count, entries) == BeBytes(count) \o Concat(entries)
ClassInfoBytes(interfaces_count, fields_count) ==
    <<0, 33, 0, 8, 0, 0>> \o BeBytes(interfaces_count) \o BeBytes(fields_count)

\* The attributes of the method records: a Code attribute that ends with
\* its code; one with four more bytes after the code; an attribute named
\* "code"; a Code attribute shorter than its code_length; an attribute
\* whose name is the Integer of the pool.
AttrKinds ==
    { <<0, 1>> \o U4(13) \o <<0, 2, 0, 1>> \o U4(5)
          \o <<i_iconst_0, i_invokevirtual, 0, 0, i_return>>,
      <<0, 1>> \o U4(13) \o <<0, 1, 0, 3>> \o U4(1) \o <<i_return, 0, 0, 0, 0>>,
      <<0, 6>> \o U4(2) \o <<0, 2>>,
      <<0, 1>> \o U4(9) \o <<0, 1, 0, 1>> \o U4(2) \o <<i_return>>,
      <<0, 7>> \o U4(0) }

RECURSIVE AttrLists(_)
AttrLists(n) ==
    IF n = 0 THEN {<<>>}
    ELSE AttrLists(n - 1)
         \cup {Append(l, a) : l \in {x \in AttrLists(n - 1) : Len(x) = n - 1},
                              a \in AttrKinds}

MethodBytes(access_flags, name_index, descriptor_index, attrs) ==
    BeBytes(access_flags) \o BeBytes(name_index) \o BeBytes(descriptor_index)
    \o BeBytes(Len(attrs)) \o Concat(attrs)

ClassBytes(count, entries, interfaces_count, fields_count, method_count, methods) ==
    Header \o PoolBytes(count, entries) \o ClassInfoBytes(interfaces_count, fields_count)
    \o BeBytes(method_count) \o Concat(methods)

\* A method main with one Code attribute.
PlainMain == MethodBytes(9, 2, 3, << <<0, 1>> \o U4(9) \o <<0, 1, 0, 1>> \o U4(1) \o <<i_return>> >>)

\* A class file of main and a method after it; the prefixes of it are the
\* files cut short.
WholeFile ==
    ClassBytes(12, GoodEntries, 0, 0, 2,
               <<PlainMain,
                 MethodBytes(8, 6, 5, << <<0, 6>> \o U4(1) \o <<9>>,
                                         <<0, 1>> \o U4(10) \o <<0, 0, 0, 0>> \o U4(2)
                                             \o <<i_iconst_0, i_ireturn>> >>)>>)

\* The class files of the parser's runs.
IsFile(f) ==
    \/ \E flags \in {0, 1, 8, 9}, name \in {<<2, 3>>, <<4, 5>>}, attrs \in AttrLists(MaxAttrs) :
          f = ClassBytes(12, GoodEntries, 0, 0, 1,
                         <<MethodBytes(flags, name[1], name[2], attrs)>>)
    \/ \E e \in ExtraEntries, count \in {12, 13} :
          f = ClassBytes(count, Append(GoodEntries, e), 0, 0, 1, <<PlainMain>>)
    \/ \E count \in {0, 1, 2, 11, 14} :
          f = ClassBytes(count, GoodEntries, 0, 0, 1, <<PlainMain>>)
    \/ \E ic \in {0, 1}, fc \in {0, 1, 256}, mc \in 0..2 :
          f = ClassBytes(12, GoodEntries, ic, fc, mc, <<PlainMain>>)
    \/ \E ni \in {0, 1, 7, 9, 12, 65535}, di \in {0, 3, 8, 12} :
          f = ClassBytes(12, GoodEntries, 0, 0, 1,
                         <<MethodBytes(9, ni, di, << <<0, 1>> \o U4(9) \o <<0, 1, 0, 1>>
                                                       \o U4(1) \o <<i_return>> >>)>>)
    \/ \E ai \in {0, 12, 65535}, b1 \in {0, 128} :
          f = ClassBytes(12, GoodEntries, 0, 0, 1,
                         <<MethodBytes(9, 2, 3, << BeBytes(ai) \o <<b1, 0, 0, 0>> >>)>>)
    \/ \E b1 \in {0, 128}, len \in 0..9 :
          f = ClassBytes(12, GoodEntries, 0, 0, 1,
                         <<MethodBytes(9, 2, 3, << <<0, 1>> \o U4(len) \o
                                SubSeq(<<0, 1, 0, 1, b1, 0, 0, 1, i_return>>, 1, len) >>)>>)
    \/ \E n \in 0..Len(WholeFile) : f = SubSeq(WholeFile, 1, n)

ParseInit ==
    /\ IsFile(file)
    /\ parse = StartParse
    /\ trail = <<>>
    /\ class = ClassFile(<<>>, <<>>)
    /\ overflow_checks \in BOOLEAN
    /\ frames = <<>>
    /\ output = <<>>
    /\ status = "unparsed"
    /\ steps = 0
    /\ last = NoTurn
    /\ saved = <<>>

\* The parser at p after a step: a panic ends the process, the end of
\* get_class gives main the ClassFile.
Failed(p, why) == [p EXCEPT !.phase = "panic", !.why = why]
ParserStep(p) ==
    /\ parse' = p
    /\ status' = CASE p.phase = "panic" -> "panic"
                   [] p.phase = "done" -> "parsed"
                   [] OTHER -> status
    /\ class' = IF p.phase = "done" THEN ClassFile(p.cp, p.methods) ELSE class
    /\ UNCHANGED <<file, overflow_checks, frames, output, steps, last, saved>>

\* get_class_header: eight bytes read and dropped.
GetClassHeader ==
    /\ parse.phase = "header"
    /\ ParserStep(IF Eof(file, parse.pos, 8) THEN Failed(parse, "eof")
                  ELSE [parse EXCEPT !.phase = "pool_count", !.pos = @ + 8])
    /\ UNCHANGED trail

\* (a variant of GetConstantPool for C22: the declared count taken as the
\* number of entries)
GetConstantPool_whole ==
    /\ parse.phase = "pool_count"
    /\ ParserStep(IF Eof(file, parse.pos, 2) THEN Failed(parse, "eof")
                  ELSE IF read_2_bytes(file, parse.pos) = 0 THEN Failed(parse, "count")
                  ELSE [parse EXCEPT !.phase = "pool", !.pos = @ + 2,
                                     !.count = read_2_bytes(file, parse.pos)])
    /\ UNCHANGED trail

\* get_constant_pool, up to its loop: count = read_2_bytes as usize - 1
\* (a declared count of 0: the subtraction overflows or, wrapped, is a
\* capacity that Vec::with_capacity refuses).
GetConstantPool ==
    /\ parse.phase = "pool_count"
    /\ ParserStep(IF Eof(file, parse.pos, 2) THEN Failed(parse, "eof")
                  ELSE IF read_2_bytes(file, parse.pos) = 0 THEN Failed(parse, "count")
                  ELSE [parse EXCEPT !.phase = "pool", !.pos = @ + 2,
                                     !.count = read_2_bytes(file, parse.pos) - 1])
    /\ UNCHANGED trail

\* One turn of the loop of get_constant_pool.
PoolEntry ==
    /\ parse.phase = "pool"
    /\ parse.count > 0
    /\ LET e == pool_entry(file, parse.pos)
       IN  ParserStep(IF e.why # "" THEN Failed(parse, e.why)
                      ELSE [parse EXCEPT !.cp = Append(@, e.entry), !.pos = @ + e.size,
                                         !.count = @ - 1])
    /\ UNCHANGED trail

\* get_class_info, after the loop of get_constant_pool.
GetClassInfo ==
    /\ parse.phase = "pool"
    /\ parse.count = 0
    /\ ParserStep(IF Eof(file, parse.pos, 8) THEN Failed(parse, "eof")
                  ELSE IF read_2_bytes(file, parse.pos + 6) # 0
                  THEN Failed(parse, "interfaces")
                  ELSE IF Eof(file, parse.pos, 10) THEN Failed(parse, "eof")
                  ELSE IF read_2_bytes(file, parse.pos + 8) # 0
                  THEN Failed(parse, "fields")
                  ELSE [parse EXCEPT !.phase = "methods", !.pos = @ + 10])
    /\ UNCHANGED trail

\* get_methods, up to its loop.
GetMethods ==
    /\ parse.phase = "methods"
    /\ ParserStep(IF Eof(file, parse.pos, 2) THEN Failed(parse, "eof")
                  ELSE [parse EXCEPT !.phase = "record", !.pos = @ + 2,
                                     !.method_count = read_2_bytes(file, parse.pos)])
    /\ UNCHANGED trail

\* One turn of the loop of get_methods, up to the call of
\* read_method_attributes.
MethodRecord ==
    /\ parse.phase = "record"
    /\ parse.method_count > 0
    /\ ParserStep(
          IF Eof(file, parse.pos, 8) THEN Failed(parse, "eof")
          ELSE
          LET access_flags == read_2_bytes(file, parse.pos)
              name == utf8_constant(parse.cp, read_2_bytes(file, parse.pos + 2))
              descriptor == utf8_constant(parse.cp, read_2_bytes(file, parse.pos + 4))
              read == [parse EXCEPT !.pos = @ + 8,
                                    !.info = [access_flags |-> access_flags,
                                              name |-> name.s,
                                              descriptor |-> descriptor.s]]
          IN  IF name.why # "" THEN Failed(read, name.why)
              ELSE IF descriptor.why # "" THEN Failed(read, descriptor.why)
              ELSE IF init_check_panics(name.s, access_flags) THEN Failed(read, "init")
              ELSE [read EXCEPT !.phase = "attribute",
                                !.acount = read_2_bytes(file, parse.pos + 6),
                                !.codes = NoCode, !.found_code = FALSE])
    /\ trail' = <<>>

\* One turn of the loop of read_method_attributes.
Attribute ==
    /\ parse.phase = "attribute"
    /\ parse.acount > 0
    /\ IF Eof(file, parse.pos, 6) \/ TooLong(file[parse.pos + 3])
       THEN ParserStep(Failed(parse, "eof")) /\ UNCHANGED trail
       ELSE
       LET attribute_length == read_4_bytes(file, parse.pos + 2)
           at == parse.pos + 6
           type_constant == utf8_constant(parse.cp, read_2_bytes(file, parse.pos))
           decoded == read_code(SubSeq(file, at + 1, at + attribute_length))
           read == [parse EXCEPT !.pos = at + attribute_length, !.acount = @ - 1]
       IN  IF Eof(file, at, attribute_length)
           THEN ParserStep(Failed(parse, "eof")) /\ UNCHANGED trail
           ELSE IF type_constant.why # ""
           THEN ParserStep(Failed(read, type_constant.why)) /\ UNCHANGED trail
           ELSE /\ trail' = Append(trail, [name |-> type_constant.s, at |-> at,
                                           length |-> attribute_length])
                /\ ParserStep(
                      IF type_constant.s # <<"C", "o", "d", "e">> THEN read
                      ELSE IF parse.found_code THEN Failed(read, "duplicate")
                      ELSE IF decoded.why # ""
                      THEN Failed([read EXCEPT !.found_code = TRUE], decoded.why)
                      ELSE [read EXCEPT !.found_code = TRUE, !.codes = decoded.code])

\* (a variant of AttributesEnd for C15: found_code is not looked at)
AttributesEnd_unchecked ==
    /\ parse.phase = "attribute"
    /\ parse.acount = 0
    /\ ParserStep([parse EXCEPT !.phase = "record", !.method_count = @ - 1,
                                !.methods = Append(@, Method(parse.info.name,
                                                             parse.info.descriptor,
                                                             parse.codes))])
    /\ UNCHANGED trail

\* The end of read_method_attributes and of the turn of get_methods.
AttributesEnd ==
    /\ parse.phase = "attribute"
    /\ parse.acount = 0
    /\ ParserStep(IF ~parse.found_code THEN Failed(parse, "missing")
                  ELSE [parse EXCEPT !.phase = "record", !.method_count = @ - 1,
                                     !.methods = Append(@, Method(parse.info.name,
                                                                  parse.info.descriptor,
                                                                  parse.codes))])
    /\ UNCHANGED trail

\* The end of get_methods and of get_class.
GetClassEnd ==
    /\ parse.phase = "record"
    /\ parse.method_count = 0
    /\ ParserStep([parse EXCEPT !.phase = "done"])
    /\ UNCHANGED trail

ParseNext ==
    \/ GetClassHeader
    \/ GetConstantPool
    \/ PoolEntry
    \/ GetClassInfo
    \/ GetMethods
    \/ MethodRecord
    \/ Attribute
    \/ AttributesEnd
    \/ GetClassEnd

ParseSpec == ParseInit /\ [][ParseNext]_vars

(***************************************************************************)
(* The properties checked.                                                 *)
(***************************************************************************)
MaxStackOf(fr) == class.method[fr.method].code.max_stack
CodeOf(fr) == class.method[fr.method].code.code

\* The turns that went on: the loop continued, called, or returned.
WentOn == last.kind \in {"next", "call", "ret"}

\* The entries an instruction takes from the operand stack (invokestatic,
\* whose count depends on the callee, apart).
PopCount(op) ==
    IF op \in {i_iadd, i_isub, i_imul, i_idiv, i_irem} \cup (i_if_icmpeq..i_if_icmple)
    THEN 2
    ELSE IF op \in {i_ireturn, i_istore, i_ineg, i_invokevirtual}
                   \cup (i_ifeq..i_ifle) \cup (i_istore_0..i_istore_3)
    THEN 1
    ELSE 0

\* The instructions that push one entry and take none.
PushOps ==
    {i_bipush, i_sipush, i_ldc, i_iload} \cup (i_iconst_m1..i_iconst_5)
    \cup (i_iload_0..i_iload_3)

\* C1: in every invocation 0 <= op_count <= max_stack at the head of the
\* dispatch loop; no instruction goes on after taking an entry from a stack
\* that does not hold it or after pushing onto a full stack (a returned int
\* pushed onto a full stack of the caller included): the run aborts.
C1_StackBound ==
    /\ \A i \in 1..Len(frames) :
          0 <= frames[i].op_count /\ frames[i].op_count <= MaxStackOf(frames[i])
    /\ WentOn => last.pre.op_count >= PopCount(last.op)
    /\ last.kind = "next" /\ last.op \in PushOps
          => last.pre.op_count < MaxStackOf(last.pre)
    /\ last.kind = "ret" /\ last.some /\ last.depth >= 2
          => last.below.op_count < MaxStackOf(last.below)

\* A push onto a full stack of two entries aborted the run.
C1_Witness ==
    /\ status = "panic"
    /\ last.kind = "panic"
    /\ last.op = i_iconst_0
    /\ last.pre.op_count = 2
    /\ MaxStackOf(last.pre) = 2

\* The frame of the caller of the innermost invocation.
CallerFrame == frames[Len(frames) - 1]

\* Whether the condition of a branch holds: goto always; ifeq .. ifle on the
\* top b against zero; if_icmpeq .. if_icmple on a (second from the top)
\* against b (the top), as signed integers.
Holds(op, a, b) ==
    CASE op = i_goto -> TRUE
      [] op = i_ifeq -> b = 0
      [] op = i_ifne -> b # 0
      [] op = i_iflt -> b < 0
      [] op = i_ifge -> b >= 0
      [] op = i_ifgt -> b > 0
      [] op = i_ifle -> b <= 0
      [] op = i_if_icmpeq -> a = b
      [] op = i_if_icmpne -> a # b
      [] op = i_if_icmplt -> a < b
      [] op = i_if_icmpge -> a >= b
      [] op = i_if_icmpgt -> a > b
      [] op = i_if_icmple -> a <= b

\* The latest turn dispatched the instruction op (of len bytes, all within
\* the code) on a stack that held the entries it takes.
Dispatched(ops, len) ==
    /\ last.kind \in {"next", "call", "ret", "panic"}
    /\ last.op \in ops
    /\ last.pre.pc + len <= Len(CodeOf(last.pre))
    /\ last.pre.op_count >= PopCount(last.op)

\* The operands of the latest turn: the entry below the top and the top.
LastA == last.pre.op_stack[last.pre.op_count - 1]
LastB == last.pre.op_stack[last.pre.op_count]

\* The signed 16-bit offset after the opcode of the latest turn.
LastOffset ==
    i16_from_be_bytes(CodeOf(last.pre)[last.pre.pc + 2], CodeOf(last.pre)[last.pre.pc + 3])

LastHolds ==
    Holds(last.op, IF PopCount(last.op) = 2 THEN LastA ELSE 0,
                   IF PopCount(last.op) >= 1 THEN LastB ELSE 0)

\* C2: a goto or a conditional branch at p whose condition holds goes on at
\* p + offset, for every p within the code and every signed 16-bit offset; a
\* conditional branch whose condition does not hold goes on at p + 3.
C2_BranchTarget ==
    Dispatched(BranchOps, 3) =>
        /\ last.kind = "next"
        /\ TopFrame.pc = IF LastHolds THEN last.pre.pc + LastOffset ELSE last.pre.pc + 3

\* The number of characters between '(' and ')' of a descriptor.
ParamChars(d) ==
    LET open == CHOOSE i \in 1..Len(d) : d[i] = "(" /\ \A j \in 1..(i - 1) : d[j] # "("
        close == CHOOSE i \in 1..Len(d) : d[i] = ")" /\ \A j \in 1..(i - 1) : d[j] # ")"
    IN  (close - open) - 1

DescriptorOf(fr) == class.method[fr.method].descriptor

\* C3: an invokestatic gives the callee, with n the number of characters
\* between the parentheses of its descriptor, locals[i] = the caller's stack
\* entry at op_count - n + i for i < n, 0 in every other local up to
\* max_locals, an empty operand stack and pc = 0, and lowers the caller's
\* op_count by exactly n.
C3_ParameterPassing ==
    last.kind = "call" =>
        LET n == ParamChars(DescriptorOf(TopFrame))
            ml == class.method[TopFrame.method].code.max_locals
        IN  /\ n <= last.pre.op_count
            /\ n <= ml
            /\ Len(TopFrame.locals) = ml
            /\ \A i \in 0..(ml - 1) :
                  TopFrame.locals[i + 1] =
                      IF i < n THEN last.pre.op_stack[((last.pre.op_count - n) + i) + 1]
                      ELSE 0
            /\ TopFrame.op_count = 0
            /\ TopFrame.pc = 0
            /\ CallerFrame.op_count = last.pre.op_count - n

\* C4: when a callee's invocation ends its caller goes on at p + 3, p the
\* address of the invokestatic; an int returned (the top of the callee's
\* stack at its ireturn) is pushed, nothing is pushed after a void return:
\* op_count is the one before the call - n + 1, or - n (n as in C3).
C4_Return ==
    last.kind = "ret" /\ last.depth >= 2 =>
        LET n == ParamChars(DescriptorOf(last.pre))
        IN  /\ TopFrame.pc = last.caller.pc + 3
            /\ last.some =>
                  /\ last.op = i_ireturn
                  /\ last.v = last.pre.op_stack[last.pre.op_count]
                  /\ TopFrame.op_count = (last.caller.op_count - n) + 1
                  /\ TopFrame.op_stack[TopFrame.op_count] = last.v
            /\ ~last.some =>
                  /\ last.op \in {i_return, -1}
                  /\ TopFrame.op_count = last.caller.op_count - n

\* C5: frames are last-in-first-out and isolated.  The stack of invocations
\* grows by one at an invokestatic, shrinks by one when the innermost ends
\* and is otherwise as deep as it was; every invocation but the innermost
\* stands at its invokestatic with the locals, the pc and the stack entries
\* below the parameters that its invokestatic found; and the frame that
\* goes on after a return is the one of the matching invokestatic: its
\* method, its locals and those stack entries, past that instruction.
C5_FramesLIFO ==
    /\ Len(saved) = IF frames = <<>> THEN 0 ELSE Len(frames) - 1
    /\ \A i \in 1..(Len(frames) - 1) :
          /\ frames[i].method = saved[i].method
          /\ frames[i].locals = saved[i].locals
          /\ frames[i].pc = saved[i].pc
          /\ CodeOf(frames[i])[frames[i].pc + 1] = i_invokestatic
          /\ frames[i].op_count <= saved[i].op_count
          /\ \A k \in 1..frames[i].op_count :
                frames[i].op_stack[k] = saved[i].op_stack[k]
    /\ last.kind = "call" => last.op = i_invokestatic /\ Len(frames) = last.depth + 1
    /\ last.kind \in {"next", "panic"} => Len(frames) = last.depth
    /\ last.kind = "ret" =>
          /\ last.op \in {i_ireturn, i_return, -1}
          /\ Len(frames) = last.depth - 1
    /\ last.kind = "ret" /\ last.depth >= 2 =>
          /\ TopFrame.method = last.caller.method
          /\ TopFrame.locals = last.caller.locals
          /\ TopFrame.pc = last.caller.pc + 3
          /\ \A k \in 1..last.below.op_count :
                TopFrame.op_stack[k] = last.caller.op_stack[k]

\* A recursive invocation, three or more deep, has returned a value into
\* the invocation of the same method that called it: other locals than the
\* callee's, and its stack entry below the result still there.
C5_Witness ==
    /\ last.kind = "ret"
    /\ last.some
    /\ last.depth >= 3
    /\ last.pre.method = TopFrame.method
    /\ last.pre.locals # TopFrame.locals
    /\ last.below.op_count >= 1
    /\ TopFrame.op_count = last.below.op_count + 1
    /\ TopFrame.op_stack[1] = last.caller.op_stack[1]

\* C6: if_icmpeq .. if_icmple on a (second from the top) and b (the top)
\* branch exactly when a OP b holds as signed integers (the next pc is then
\* the target, taken up to the 16 bits it is computed in, and p + 3
\* otherwise), and take exactly two entries either way.
C6_BinaryComparisons ==
    Dispatched(i_if_icmpeq..i_if_icmple, 3) =>
        /\ last.kind = "next"
        /\ TopFrame.op_count = last.pre.op_count - 2
        /\ IF Holds(last.op, LastA, LastB)
           THEN (TopFrame.pc - (last.pre.pc + LastOffset)) % 65536 = 0
           ELSE TopFrame.pc = last.pre.pc + 3

\* a + b, a - b reduced modulo 2^32 into the signed range.
I32Sum(a, b) ==
    IF b > 0 /\ a > I32Max - b THEN ((a - I32Max) - 1) + ((b - I32Max) - 1)
    ELSE IF b < 0 /\ a < I32Min - b THEN (a - I32Min) + (b - I32Min)
    ELSE a + b
I32Diff(a, b) ==
    IF b < 0 /\ a > I32Max + b THEN ((a - I32Max) - 1) - ((b + I32Max) + 1)
    ELSE IF b > 0 /\ a < I32Min + b THEN (a - I32Min) - (b + I32Min)
    ELSE a - b

\* Byte i of the two's-complement pattern of x.
ByteOf(x, i) ==
    CASE i = 0 -> x % 256
      [] i = 1 -> (x \div 256) % 256
      [] i = 2 -> (x \div 65536) % 256
      [] i = 3 -> (x \div 16777216) % 256

\* a * b reduced modulo 2^32 into the signed range: the four low bytes of
\* the product of the patterns, by long multiplication.
I32Product(a, b) ==
    LET c0 == ByteOf(a, 0) * ByteOf(b, 0)
        c1 == ByteOf(a, 0) * ByteOf(b, 1) + ByteOf(a, 1) * ByteOf(b, 0) + (c0 \div 256)
        c2 == ByteOf(a, 0) * ByteOf(b, 2) + ByteOf(a, 1) * ByteOf(b, 1)
              + ByteOf(a, 2) * ByteOf(b, 0) + (c1 \div 256)
        c3 == ByteOf(a, 0) * ByteOf(b, 3) + ByteOf(a, 1) * ByteOf(b, 2)
              + ByteOf(a, 2) * ByteOf(b, 1) + ByteOf(a, 3) * ByteOf(b, 0) + (c2 \div 256)
        top == c3 % 256
    IN  ((IF top >= 128 THEN top - 256 ELSE top) * 16777216)
        + ((c2 % 256) * 65536) + ((c1 % 256) * 256) + (c0 % 256)

\* -x reduced modulo 2^32 into the signed range.
I32Negation(x) == IF x = I32Min THEN I32Min ELSE 0 - x

\* C7: iadd, isub and imul put (a + b), (a - b), (a * b) modulo 2^32, read as
\* a signed 32-bit value, in the place of a (second from the top) and b (the
\* top), ineg puts -x modulo 2^32 in the place of the top x; none aborts,
\* each moves pc by 1 and the binary ones lower op_count by exactly 1.
C7_WrappingArithmetic ==
    /\ Dispatched({i_iadd, i_isub, i_imul}, 1) =>
          /\ last.kind = "next"
          /\ TopFrame.pc = last.pre.pc + 1
          /\ TopFrame.op_count = last.pre.op_count - 1
          /\ TopFrame.op_stack[TopFrame.op_count] =
                CASE last.op = i_iadd -> I32Sum(LastA, LastB)
                  [] last.op = i_isub -> I32Diff(LastA, LastB)
                  [] last.op = i_imul -> I32Product(LastA, LastB)
    /\ Dispatched({i_ineg}, 1) =>
          /\ last.kind = "next"
          /\ TopFrame.pc = last.pre.pc + 1
          /\ TopFrame.op_count = last.pre.op_count
          /\ TopFrame.op_stack[TopFrame.op_count] = I32Negation(LastB)

\* isub of the least int and 1 wrapped to the greatest.
C7_Witness ==
    /\ Dispatched({i_isub}, 1)
    /\ LastA = I32Min
    /\ LastB = 1
    /\ last.kind = "next"
    /\ TopFrame.op_stack[TopFrame.op_count] = I32Max

\* The quotient of the magnitudes of a and of y > 1.
MagnitudeQuotient(a, y) ==
    IF a >= 0 THEN a \div y
    ELSE IF a = I32Min THEN (I32Max \div y) + (IF I32Max % y = y - 1 THEN 1 ELSE 0)
    ELSE (0 - a) \div y

\* a / b rounded toward zero, for b # 0; the one quotient that is no i32
\* (the least int by -1) reduced modulo 2^32.
I32Quotient(a, b) ==
    IF b = 1 THEN a
    ELSE IF b = -1 THEN I32Negation(a)
    ELSE IF b = I32Min THEN (IF a = I32Min THEN 1 ELSE 0)
    ELSE LET m == MagnitudeQuotient(a, IF b > 0 THEN b ELSE 0 - b)
         IN  IF (a >= 0) = (b > 0) THEN m ELSE 0 - m

\* a - (a / b) * b
I32Remainder(a, b) ==
    IF b = 1 \/ b = -1 THEN 0 ELSE a - I32Quotient(a, b) * b

\* C8: with b # 0, idiv leaves a / b rounded toward zero and irem leaves
\* a - (a / b) * b (the least int by -1 gives the least int, and remainder
\* 0, without aborting); with b = 0 both abort the run and push nothing.
C8_DivisionRemainder ==
    Dispatched({i_idiv, i_irem}, 1) =>
        IF LastB = 0
        THEN /\ last.kind = "panic"
             /\ status = "panic"
             /\ TopFrame = last.pre
        ELSE /\ last.kind = "next"
             /\ TopFrame.pc = last.pre.pc + 1
             /\ TopFrame.op_count = last.pre.op_count - 1
             /\ TopFrame.op_stack[TopFrame.op_count] =
                   IF last.op = i_idiv THEN I32Quotient(LastA, LastB)
                   ELSE I32Remainder(LastA, LastB)

\* idiv of the least int by -1 went on, with the least int as the result.
C8_Witness ==
    /\ Dispatched({i_idiv}, 1)
    /\ LastA = I32Min
    /\ LastB = -1
    /\ last.kind = "next"
    /\ TopFrame.op_stack[TopFrame.op_count] = I32Min

DigitValue(c) ==
    CASE c = "0" -> 0 [] c = "1" -> 1 [] c = "2" -> 2 [] c = "3" -> 3
      [] c = "4" -> 4 [] c = "5" -> 5 [] c = "6" -> 6 [] c = "7" -> 7
      [] c = "8" -> 8 [] c = "9" -> 9

Digits == {"0", "1", "2", "3", "4", "5", "6", "7", "8", "9"}

\* The negative of the number a sequence of digits denotes.
RECURSIVE NegativeOf(_)
NegativeOf(ds) ==
    IF Len(ds) = 0 THEN 0
    ELSE NegativeOf(SubSeq(ds, 1, Len(ds) - 1)) * 10 - DigitValue(ds[Len(ds)])

\* line is the decimal integer v and a newline: a '-' exactly when v < 0,
\* then at most ten digits, no leading zero, that denote its magnitude.
IsDecimalLine(line, v) ==
    /\ Len(line) >= 2
    /\ line[Len(line)] = "\n"
    /\ LET body == SubSeq(line, 1, Len(line) - 1)
           ds == IF body[1] = "-" THEN SubSeq(body, 2, Len(body)) ELSE body
       IN  /\ (body[1] = "-") = (v < 0)
           /\ Len(ds) \in 1..10
           /\ \A i \in 1..Len(ds) : ds[i] \in Digits
           /\ Len(ds) > 1 => ds[1] # "0"
           /\ NegativeOf(ds) = IF v < 0 THEN v ELSE 0 - v

\* C9: every invokevirtual (on a stack that is not empty) appends to the
\* output one line, the decimal integer on top of the stack, takes that one
\* entry and moves pc by 3 whatever its operand bytes; nothing else changes
\* the output: the output is the sequence of those values, in the order of
\* execution across the nested invocations.
C9_OutputTrace ==
    [][IF InLoop /\ Current = i_invokevirtual /\ TopFrame.op_count >= 1
       THEN /\ Len(output') = Len(output) + 1
            /\ SubSeq(output', 1, Len(output)) = output
            /\ IsDecimalLine(output'[Len(output')], TopFrame.op_stack[TopFrame.op_count])
            /\ Len(frames') = Len(frames)
            /\ frames'[Len(frames)] =
                  [TopFrame EXCEPT !.op_count = TopFrame.op_count - 1,
                                   !.pc = TopFrame.pc + 3]
            /\ status' = status
       ELSE output' = output]_vars

\* Two lines written, the first by a callee, the second by main after the
\* callee's return.
C9_Witness ==
    /\ Len(output) = 2
    /\ last.op = i_invokevirtual
    /\ last.kind = "next"
    /\ last.depth = 1
    /\ output[1] # output[2]
    /\ IsDecimalLine(output[2], LastB)

\* The opcode values of the documented instruction set.
Documented ==
    (2..8) \cup {16, 17, 18, 21} \cup (26..29) \cup {54} \cup (59..62)
    \cup {96, 100, 104, 108, 112, 116, 132} \cup (153..164)
    \cup {167, 172, 177, 178, 182, 184}

\* C10: a byte at pc that is no documented opcode aborts the run at that
\* turn: the frame is left as it was (the byte neither skipped nor run as
\* another instruction) and nothing is written.
C10_UnknownOpcodeFatal ==
    /\ [](last.kind \in {"next", "call", "ret", "panic"} /\ last.op # -1
          /\ last.op \notin Documented
             => /\ last.kind = "panic"
                /\ status = "panic"
                /\ Len(frames) = last.depth
                /\ TopFrame = last.pre)
    /\ [][InLoop /\ Current \notin Documented
             => status' = "panic" /\ frames' = frames /\ output' = output]_vars

\* The byte 185 (invokeinterface), after a push, aborted the run.
C10_Witness ==
    /\ status = "panic"
    /\ last.op = 185
    /\ last.pre.op_count = 1
    /\ TopFrame = last.pre

\* code.code_length of the method of a frame.
CodeLengthOf(fr) == class.method[fr.method].code.code_length

\* C11: an invocation that ends without aborting ends in exactly one of
\* three ways: at an ireturn, with the int on top of its stack; at a return,
\* with no value; or at the head of the loop with pc >= code_length, with no
\* value.  No opcode of a method is dispatched at a pc >= code_length: the
\* only turn taken there is that end.
C11_InvocationEnds ==
    /\ last.kind = "ret" =>
          \/ /\ last.op = i_ireturn
             /\ UsizeLt(last.pre.pc, CodeLengthOf(last.pre))
             /\ last.some
             /\ last.pre.op_count >= 1
             /\ last.v = last.pre.op_stack[last.pre.op_count]
          \/ /\ last.op = i_return
             /\ UsizeLt(last.pre.pc, CodeLengthOf(last.pre))
             /\ ~last.some
          \/ /\ last.op = -1
             /\ ~UsizeLt(last.pre.pc, CodeLengthOf(last.pre))
             /\ ~last.some
    /\ last.kind \in {"next", "call", "panic"} =>
          /\ last.op # -1
          /\ 0 <= last.pre.pc
          /\ last.pre.pc < CodeLengthOf(last.pre)
          /\ last.op = CodeOf(last.pre)[last.pre.pc + 1]
    /\ last.kind \in {"next", "call"} => last.op \notin {i_ireturn, i_return}

\* A callee with two entries on its stack has ended at an ireturn with the
\* top one.
C11_Witness ==
    /\ last.kind = "ret"
    /\ last.op = i_ireturn
    /\ last.depth >= 2
    /\ last.pre.op_count = 2
    /\ last.v = last.pre.op_stack[2]
    /\ last.v # last.pre.op_stack[1]

\* The entry point the driver asks for.
EntryName == <<"m", "a", "i", "n">>
EntryDescriptor ==
    <<"(", "[", "L", "j", "a", "v", "a", "/", "l", "a", "n", "g", "/",
      "S", "t", "r", "i", "n", "g", ";", ")", "V">>

\* The methods of the class with this name and this descriptor.
Matching(name, desc) ==
    {i \in 1..Len(class.method) :
        class.method[i].name = name /\ class.method[i].descriptor = desc}

\* C12: the driver invokes the method named "main" with the descriptor
\* "([Ljava/lang/String;)V", all its max_locals locals 0; it is fatal if no
\* such method exists; the run succeeds only if that invocation returns
\* void, and is fatal if it returns an int.
C12_EntryPoint ==
    LET mains == Matching(EntryName, EntryDescriptor)
    IN  /\ status # "parsed" /\ mains = {} => status = "panic" /\ frames = <<>>
        /\ last.kind = "start" /\ mains # {} =>
              /\ status = "running"
              /\ Len(frames) = 1
              /\ frames[1].method \in mains
              /\ frames[1].locals = [i \in 1..class.method[frames[1].method].code.max_locals |-> 0]
              /\ frames[1].pc = 0
              /\ frames[1].op_count = 0
        /\ frames # <<>> => frames[1].method \in mains
        /\ status = "exited" =>
              /\ last.kind = "ret"
              /\ last.depth = 1
              /\ last.pre.method \in mains
              /\ ~last.some
        /\ last.kind = "ret" /\ last.depth = 1 /\ last.some => status = "panic"

\* main has ended through an ireturn: the run is aborted.
C12_Witness ==
    /\ status = "panic"
    /\ last.kind = "ret"
    /\ last.depth = 1
    /\ last.op = i_ireturn
    /\ last.some
    /\ last.pre.method \in Matching(EntryName, EntryDescriptor)

\* The operand of the invokestatic of the latest turn.
LastIndex ==
    u16_from_be_bytes(CodeOf(last.pre)[last.pre.pc + 2], CodeOf(last.pre)[last.pre.pc + 3])

\* Ref -> NameAndType -> (Utf8 name, Utf8 descriptor) from the pool index k:
\* every link in 1..pool size and of its variant.
ChainResolves(k) ==
    LET cp == class.constant_pool
        InPool(i) == 1 <= i /\ i <= Len(cp)
    IN  /\ InPool(k)
        /\ cp[k].tag = "MethodOrFieldRef"
        /\ InPool(cp[k].name_and_type_index)
        /\ cp[cp[k].name_and_type_index].tag = "NameAndType"
        /\ InPool(cp[cp[k].name_and_type_index].name_index)
        /\ cp[cp[cp[k].name_and_type_index].name_index].tag = "Utf8"
        /\ InPool(cp[cp[k].name_and_type_index].descriptor_index)
        /\ cp[cp[cp[k].name_and_type_index].descriptor_index].tag = "Utf8"

\* The methods that the Ref at k names, by name and by descriptor.
Named(k) ==
    LET cp == class.constant_pool
        nt == cp[cp[k].name_and_type_index]
    IN  Matching(cp[nt.name_index].s, cp[nt.descriptor_index].s)

\* C13: the method looked up has the requested name and the requested
\* descriptor, and is the first such method in declaration order; the
\* lookup aborts when no method has both.  An invokestatic reaches the
\* lookup through Ref -> NameAndType -> (Utf8, Utf8) and aborts if a link is
\* out of range or of another variant.
C13_MethodLookup ==
    /\ last.kind = "start" =>
          IF Matching(MainName, MainDescriptor) = {}
          THEN status = "panic"
          ELSE /\ frames[1].method \in Matching(MainName, MainDescriptor)
               /\ \A j \in Matching(MainName, MainDescriptor) : frames[1].method <= j
    /\ Dispatched({i_invokestatic}, 3) =>
          /\ last.kind \in {"call", "panic"}
          /\ last.kind = "call" =>
                /\ ChainResolves(LastIndex)
                /\ TopFrame.method \in Named(LastIndex)
                /\ \A j \in Named(LastIndex) : TopFrame.method <= j
          /\ ~ChainResolves(LastIndex) => last.kind = "panic"
          /\ ChainResolves(LastIndex) /\ Named(LastIndex) = {} => last.kind = "panic"

\* An invokestatic has reached the first of two methods f with the same
\* descriptor, in a class where other methods have that descriptor or
\* that name alone.
C13_Witness ==
    /\ last.kind = "call"
    /\ Named(LastIndex) = {3, 4}
    /\ TopFrame.method = 3
    /\ \E i \in 1..Len(class.method) :
          /\ class.method[i].descriptor = class.method[3].descriptor
          /\ class.method[i].name # class.method[3].name

\* The method record last read is named "<init>"; its flags have the static
\* bit 0x0008.
ReadInit == parse.info.name = <<"<", "i", "n", "i", "t", ">">>
ReadStatic == (parse.info.access_flags \div 8) % 2 = 1

\* C14: a method record named "<init>" whose access flags lack the static
\* bit 0x0008 is fatal to the parse, and the check rejects no method whose
\* flags have the static bit.
C14_NonStaticInit ==
    /\ ReadInit /\ ~ReadStatic => parse.phase = "panic" /\ parse.why = "init"
    /\ parse.why = "init" => ReadInit /\ ~ReadStatic

\* The attributes named "Code" among those read of the method record.
CodeAttrs == {i \in 1..Len(trail) : trail[i].name = <<"C", "o", "d", "e">>}

\* The parser has just completed a method record: the method is the last
\* of methods and trail holds its attributes.
MethodDone == parse.phase \in {"record", "done"} /\ parse.methods # <<>>
LastMethod == parse.methods[Len(parse.methods)]

\* The Code that the payload at the offset at of the file holds.
CodeAt(at) ==
    LET code_length == read_4_bytes(file, at + 4)
    IN  [max_stack |-> file[at + 1] * 256 + file[at + 2],
         max_locals |-> file[at + 3] * 256 + file[at + 4],
         code_length |-> code_length,
         code |-> [i \in 1..code_length |-> file[at + 8 + i]]]

\* C15: a method record is parsed only if exactly one of its attributes is
\* named "Code": a second one is fatal, none is fatal; the attributes of
\* another name are skipped, their payload consumed, and the method is the
\* one that the Code attribute alone gives.
C15_OneCodeAttribute ==
    /\ [](/\ Cardinality(CodeAttrs) >= 2 => parse.phase = "panic"
          /\ parse.why = "duplicate" => Cardinality(CodeAttrs) = 2
          /\ parse.why = "missing" => CodeAttrs = {}
          /\ \A i \in 1..(Len(trail) - 1) :
                trail[i + 1].at = trail[i].at + trail[i].length + 6
          /\ parse.phase = "attribute" /\ trail # <<>> =>
                parse.pos = trail[Len(trail)].at + trail[Len(trail)].length
          /\ MethodDone =>
                /\ Cardinality(CodeAttrs) = 1
                /\ parse.pos = trail[Len(trail)].at + trail[Len(trail)].length
                /\ LastMethod.name = parse.info.name
                /\ LastMethod.descriptor = parse.info.descriptor
                /\ \A i \in CodeAttrs : LastMethod.code = CodeAt(trail[i].at))
    /\ [][parse.phase = "attribute" /\ parse.acount = 0 /\ CodeAttrs = {}
             => parse'.phase = "panic" /\ parse'.why = "missing"]_vars

\* A method parsed from three attributes, the Code attribute between two
\* of another name.
C15_Witness ==
    /\ MethodDone
    /\ Len(trail) = 3
    /\ CodeAttrs = {2}
    /\ LastMethod.code.code_length = 5

\* The index i is in 1..pool size of the parsed pool and the constant
\* there is of the variant tag.
ResolvesTo(i, tag) ==
    /\ 1 <= i
    /\ i <= Len(parse.cp)
    /\ parse.cp[i].tag = tag

\* C16: in every class that the parser returns, the name_and_type_index of
\* every Ref is in 1..pool size and resolves to a NameAndType whose
\* name_index and descriptor_index are in 1..pool size and resolve to Utf8
\* constants (the parser rejects the class files where this fails).
C16_RefsWellFormed ==
    parse.phase = "done" =>
        \A k \in 1..Len(parse.cp) :
            parse.cp[k].tag = "MethodOrFieldRef" =>
                /\ ResolvesTo(parse.cp[k].name_and_type_index, "NameAndType")
                /\ ResolvesTo(parse.cp[parse.cp[k].name_and_type_index].name_index, "Utf8")
                /\ ResolvesTo(parse.cp[parse.cp[k].name_and_type_index].descriptor_index,
                              "Utf8")

\* The Code attribute of the method just completed.
TheCodeAttr == trail[CHOOSE i \in CodeAttrs : TRUE]

\* The code of the method just completed has exactly code_length bytes,
\* the code_length bytes that follow max_stack, max_locals and code_length
\* in the payload of its Code attribute, and code_length is the value of
\* those four bytes.
CodeIsPayload ==
    LET c == LastMethod.code
        at == TheCodeAttr.at
    IN  /\ Len(c.code) = c.code_length
        /\ c.code_length = ((file[at + 5] * 256 + file[at + 6]) * 256 + file[at + 7]) * 256
                           + file[at + 8]
        /\ \A i \in 1..Len(c.code) : c.code[i] = file[at + 8 + i]

\* C17 as stated: for every method that the parser returns, the code is
\* the code_length bytes after max_stack, max_locals and code_length in the
\* payload, and code_length is the declared attribute length minus 8.
C17_CodeLength ==
    MethodDone =>
        /\ CodeIsPayload
        /\ LastMethod.code.code_length = TheCodeAttr.length - 8

\* C17 amended: for every method that the parser returns, the code is the
\* code_length bytes after max_stack, max_locals and code_length in the
\* payload, and code_length is at most the declared attribute length minus
\* 8 (the bytes of the attribute after the code are not looked at).
C17_CodeLengthAtMost ==
    MethodDone =>
        /\ CodeIsPayload
        /\ LastMethod.code.code_length <= TheCodeAttr.length - 8

\* A method parsed from a Code attribute of 13 bytes whose code is 1 byte.
C17_Witness ==
    /\ MethodDone
    /\ TheCodeAttr.length = 13
    /\ LastMethod.code.code_length = 1
    /\ LastMethod.code.code = <<i_return>>

\* The twelve comparison opcodes.
ComparisonOps == i_ifeq..i_if_icmple

LastByte1 == CodeOf(last.pre)[last.pre.pc + 2]
LastByte2 == CodeOf(last.pre)[last.pre.pc + 3]

\* The frame after the latest turn differs from the one before it at most
\* in pc and in the local i (from 0).
OnlyLocalChanged(i) ==
    /\ TopFrame.op_stack = last.pre.op_stack
    /\ TopFrame.op_count = last.pre.op_count
    /\ Len(TopFrame.locals) = Len(last.pre.locals)
    /\ \A j \in 1..Len(TopFrame.locals) :
          j # i + 1 => TopFrame.locals[j] = last.pre.locals[j]

\* C19: iinc of a local i < max_locals holding v by an immediate byte sets
\* the local to v plus the byte read as a signed 8-bit value (reduced
\* modulo 2^32) and never aborts; the operand stack, op_count and the other
\* locals are unchanged and pc moves by 3.
C19_Iinc ==
    Dispatched({i_iinc}, 3) /\ LastByte1 < Len(last.pre.locals) =>
        /\ last.kind = "next"
        /\ TopFrame.pc = last.pre.pc + 3
        /\ OnlyLocalChanged(LastByte1)
        /\ TopFrame.locals[LastByte1 + 1] =
              I32Sum(last.pre.locals[LastByte1 + 1],
                     IF LastByte2 >= 128 THEN LastByte2 - 256 ELSE LastByte2)

\* The value of the n low bits u read as a signed number, n = 8 or 16.
Signed(u, modulus) == ((u + modulus \div 2) % modulus) - modulus \div 2

\* The frame after the latest turn is the one before it with v pushed and
\* pc moved by len: the locals and the entries below are unchanged.
PushedOnly(v, len) ==
    /\ last.kind = "next"
    /\ TopFrame.pc = last.pre.pc + len
    /\ TopFrame.op_count = last.pre.op_count + 1
    /\ TopFrame.op_stack[TopFrame.op_count] = v
    /\ \A k \in 1..last.pre.op_count : TopFrame.op_stack[k] = last.pre.op_stack[k]
    /\ TopFrame.locals = last.pre.locals
    /\ TopFrame.method = last.pre.method

\* C20: on a stack that is not full, bipush pushes its byte read as a
\* signed 8-bit value and moves pc by 2, sipush pushes its two bytes
\* (big-endian) read as a signed 16-bit value and moves pc by 3, and the
\* opcode k in 2..8 pushes k - 3 and moves pc by 1; each raises op_count by
\* exactly 1 and leaves the locals unchanged.
C20_ConstantPushes ==
    LET room == last.pre.op_count < MaxStackOf(last.pre)
    IN  /\ Dispatched({i_bipush}, 2) /\ room => PushedOnly(Signed(LastByte1, 256), 2)
        /\ Dispatched({i_sipush}, 3) /\ room =>
              PushedOnly(Signed(LastByte1 * 256 + LastByte2, 65536), 3)
        /\ Dispatched(2..8, 1) /\ room => PushedOnly(last.op - 3, 1)

\* bipush 0xFF has pushed -1 on top of an entry.
C20_Witness ==
    /\ Dispatched({i_bipush}, 2)
    /\ LastByte1 = 255
    /\ last.kind = "next"
    /\ TopFrame.op_count = 2
    /\ TopFrame.op_stack[2] = -1

\* The latest turn aborted the run and left the running frame as it was.
AbortedUnchanged ==
    /\ last.kind = "panic"
    /\ status = "panic"
    /\ TopFrame = last.pre

\* C21: ldc with the pool index k (one byte): if the constant at the
\* 1-based index k is an Integer, then on a stack that is not full its value
\* is pushed, op_count rises by 1 and pc moves by 2; if that constant is of
\* another variant, or k is 0 or greater than the size of the pool, the run
\* aborts and nothing is pushed.
C21_Ldc ==
    Dispatched({i_ldc}, 2) =>
        LET k == LastByte1
            pool == class.constant_pool
        IN  IF k >= 1 /\ k <= Len(pool) /\ pool[k].tag = "Integer"
            THEN last.pre.op_count < MaxStackOf(last.pre) =>
                     PushedOnly(pool[k].bytes, 2)
            ELSE AbortedUnchanged

\* ldc 2 has pushed the Integer at index 2, a negative value, on top of an
\* entry.
C21_Witness ==
    /\ Dispatched({i_ldc}, 2)
    /\ LastByte1 = 2
    /\ last.kind = "next"
    /\ TopFrame.op_count = 2
    /\ class.constant_pool[2] = Integer(-7)
    /\ TopFrame.op_stack[2] = -7
    /\ TopFrame.pc = 4

\* The count that the file declares for its constant pool (the two bytes
\* after the header), and the tags of the constants.
DeclaredCount == file[9] * 256 + file[10]
Tags == {1, 3, 7, 9, 10, 12}

\* The bytes that the entry at the offset at of the file takes, by its tag.
EntrySize(at) ==
    CASE file[at + 1] = 1 -> 3 + file[at + 2] * 256 + file[at + 3]
      [] file[at + 1] \in {7} -> 3
      [] file[at + 1] \in {3, 9, 10, 12} -> 5
      [] OTHER -> 0

\* The offset in the file of the entry of the 1-based index i.
RECURSIVE EntryStart(_)
EntryStart(i) ==
    IF i = 1 THEN 10
    ELSE LET before == EntryStart(i - 1) IN before + EntrySize(before)

\* The constant e is the entry at the offset at of the file, decoded.
Decodes(e, at) ==
    LET tag == file[at + 1]
        u2(k) == file[at + k + 1] * 256 + file[at + k + 2]
    IN  CASE tag = 1 ->
               /\ e.tag = "Utf8"
               /\ Len(e.s) = u2(1)
               /\ \A j \in 1..Len(e.s) : e.s[j] = AsciiChars[file[at + 3 + j] - 31]
          [] tag = 3 ->
               /\ e.tag = "Integer"
               /\ e.bytes >= I32Min /\ e.bytes <= I32Max
               /\ e.bytes % 256 = file[at + 5]
               /\ (e.bytes \div 256) % 256 = file[at + 4]
               /\ (e.bytes \div 65536) % 256 = file[at + 3]
               /\ (e.bytes \div 16777216) % 256 = file[at + 2]
          [] tag = 7 -> e = Class(u2(1))
          [] tag \in {9, 10} -> e = MethodOrFieldRef(u2(1), u2(3))
          [] tag = 12 -> e = NameAndType(u2(1), u2(3))
          [] OTHER -> FALSE

\* The loop of get_constant_pool is at an entry whose tag byte is in the
\* file.
AtEntry ==
    /\ parse.phase = "pool"
    /\ parse.count > 0
    /\ parse.pos < Len(file)

\* The entry at the parser's position is whole in the file, and is well
\* formed where it is a Utf8.
WholeEntry ==
    /\ file[parse.pos + 1] \in Tags
    /\ file[parse.pos + 1] = 1 => parse.pos + 3 <= Len(file)
    /\ parse.pos + EntrySize(parse.pos) <= Len(file)
    /\ file[parse.pos + 1] = 1 =>
          Utf8Valid(SubSeq(file, parse.pos + 4, parse.pos + EntrySize(parse.pos)), 1)

\* C22: of a pool declared with the count c the parser reads exactly c - 1
\* entries and stores them in the order of the file: the constant that
\* get_constant returns for the index i is the entry i of the file, decoded
\* by its tag (1 Utf8, 3 Integer, 7 Class, 9 and 10 Ref, 12 NameAndType);
\* a whole entry is stored by one turn of the loop, and a tag byte that is
\* none of these aborts the parse at that entry.
C22_PoolParsing ==
    /\ [](/\ \A i \in 1..Len(parse.cp) :
                ~get_constant_panics(parse.cp, i)
                /\ Decodes(get_constant(parse.cp, i), EntryStart(i))
          /\ parse.phase = "pool" =>
                /\ Len(parse.cp) + parse.count = DeclaredCount - 1
                /\ parse.pos = EntryStart(Len(parse.cp) + 1)
          /\ parse.phase \in {"methods", "record", "attribute", "done"} =>
                Len(parse.cp) = DeclaredCount - 1)
    /\ [][/\ AtEntry /\ WholeEntry =>
                /\ parse'.phase = "pool"
                /\ Len(parse'.cp) = Len(parse.cp) + 1
                /\ SubSeq(parse'.cp, 1, Len(parse.cp)) = parse.cp
          /\ AtEntry /\ file[parse.pos + 1] \notin Tags =>
                /\ parse'.phase = "panic"
                /\ status' = "panic"
                /\ parse'.cp = parse.cp]_vars

\* A pool declared with the count 13 is parsed: twelve constants, the
\* Integer of the bytes 80 00 00 00 at 12, the Fieldref at 11 a Ref.
C22_Witness ==
    /\ parse.phase = "done"
    /\ DeclaredCount = 13
    /\ Len(class.constant_pool) = 12
    /\ class.constant_pool[12] = Integer(I32Min)
    /\ class.constant_pool[11] = MethodOrFieldRef(8, 9)
    /\ class.constant_pool[1] = Utf8(<<"C", "o", "d", "e">>)

\* The runs of the recursive sum: main prints sum(10).
SumRun == class \in {SumClass, SumJavac}

\* The invocations of such a run: main, then sum(10), sum(9), ... nested.
SumNesting ==
    /\ Len(frames) <= 12
    /\ \A i \in 1..Len(frames) :
          IF i = 1 THEN class.method[frames[i].method].name = <<"m", "a", "i", "n">>
          ELSE /\ class.method[frames[i].method].name = <<"s", "u", "m">>
               /\ frames[i].locals = <<11 - (i - 1)>>

\* From frames to frames' the innermost invocation went on, or one was
\* pushed on top, or the innermost was popped: the ones below are the same
\* invocations (a caller moves past its call when the callee is popped).
LIFOStep ==
    LET n == Len(frames)
        same(i) == /\ frames'[i].method = frames[i].method
                   /\ frames'[i].locals = frames[i].locals
    IN  \/ Len(frames') = n /\ \A i \in 1..(n - 1) : frames'[i] = frames[i]
        \/ Len(frames') = n + 1 /\ \A i \in 1..n : same(i) /\ frames'[i].pc = frames[i].pc
        \/ /\ Len(frames') = n - 1
           /\ \A i \in 1..(n - 2) : frames'[i] = frames[i]
           /\ n >= 2 => same(n - 1) /\ frames'[n - 1].pc = frames[n - 1].pc + 3

\* The turns of the longest such run: five of main, nine of each of sum(10)
\* to sum(1), five of sum(0).
SumTurns == 5 + 10 * 9 + 5

\* C23: the run of a main that pushes 10, calls the static sum of the
\* descriptor (I)I and prints the result, sum(n) being 0 for n = 0 and
\* n + sum(n - 1) otherwise, terminates (it never aborts, it can take a turn
\* as long as it has not ended, and it takes no more than SumTurns turns);
\* it nests the invocations sum(10) to sum(0) (eleven of them under main),
\* each returning the sum of 0..n, pushes and pops them last-in-first-out,
\* and ends with the output "55" and a newline and nothing else.
C23_RecursiveSum ==
    /\ [](SumRun =>
             /\ status \in {"parsed", "running", "exited"}
             /\ status # "exited" => ENABLED Next
             /\ steps <= SumTurns
             /\ SumNesting
             /\ last.kind = "ret" /\ last.depth >= 2 =>
                   /\ last.some
                   /\ last.v * 2 = last.pre.locals[1] * (last.pre.locals[1] + 1)
             /\ output \in {<<>>, << <<"5", "5", "\n">> >>}
             /\ status = "exited" => output = << <<"5", "5", "\n">> >>)
    /\ [][SumRun => LIFOStep]_vars

\* The run has ended after twelve frames were nested: the last return was
\* main's, 55 is printed.
C23_Witness ==
    /\ SumRun
    /\ status = "exited"
    /\ output = << <<"5", "5", "\n">> >>
    /\ last.op = i_return
    /\ last.depth = 1
    /\ steps >= 99 /\ steps <= SumTurns

\* The latest turn was a goto, or a conditional branch whose condition held,
\* with all its bytes in the code, and p + offset is no offset of the code.
BranchedOut ==
    /\ Dispatched(BranchOps, 3)
    /\ LastHolds
    /\ LET target == last.pre.pc + LastOffset
       IN  target < 0 \/ target >= CodeLengthOf(last.pre)

\* The innermost invocation is past its dispatch loop.
LoopOver ==
    /\ status = "running"
    /\ ~UsizeLt(TopFrame.pc, CodeLengthOf(TopFrame))

\* C24: a taken goto or conditional branch whose target is negative or at
\* least code_length does not fault: the turn goes on, no byte is read as
\* an opcode at that target (the loop's condition fails there), and the
\* invocation returns void to its caller as one that ran off the end of its
\* code.
C24_OutOfRangeBranch ==
    /\ [](BranchedOut => last.kind = "next" /\ LoopOver)
    /\ [][LoopOver /\ steps' # steps =>
             /\ last'.kind = "ret"
             /\ last'.op = -1
             /\ ~last'.some
             /\ Len(frames') = Len(frames) - 1]_vars

\* The code holds no invokestatic, and every goto and conditional branch in
\* it has an offset of 1 or more (whichever bytes the run takes as
\* instructions).
ForwardOnly(code) ==
    LET bytes == code.code
        n == Len(bytes)
    IN  \A p \in 1..n :
            /\ bytes[p] # i_invokestatic
            /\ bytes[p] \in BranchOps /\ p + 2 <= n =>
                  i16_from_be_bytes(bytes[p + 1], bytes[p + 2]) >= 1

\* C25: in a method of forward-only code every executed instruction after
\* which the invocation goes on leaves pc (a usize) greater than it was, so that the
\* invocation ends (by a return, by running off the end, or by aborting)
\* after at most code_length instructions: main, which calls nothing, has
\* taken no more turns than code_length when its loop is not over.
C25_ForwardTermination ==
    /\ [](status = "running" /\ ForwardOnly(class.method[frames[1].method].code) =>
             /\ Len(frames) = 1
             /\ InLoop => steps < CodeLengthOf(frames[1]))
    /\ [][status = "running" /\ ForwardOnly(TopCode) /\ steps' # steps
             /\ last'.kind = "next" =>
                 /\ Len(frames') = Len(frames)
                 /\ UsizeLt(TopFrame.pc, frames'[Len(frames)].pc)]_vars
====
